---- MODULE Spec2Model ----
(***************************************************************************)
(* Model of the yun-commit-helper extension: the git command surface       *)
(* (GitService), the rule-based commit classifier and the provider gateway *)
(* (AIService), and the panel handler that drives them                     *)
(* (CommitHelperProvider).                                                 *)
(*                                                                         *)
(* Text is modelled as a sequence of characters, each character a          *)
(* one-character string.  A CJK character of the source is written as a    *)
(* bracketed romanisation ("{dang}" for the first character of the file    *)
(* marker) and counts as one character, as it does in a JavaScript string. *)
(***************************************************************************)
EXTENDS Integers, Sequences, FiniteSets, TLC

VARIABLES
  gitInput,   \* argument handed to a GitService operation: [kind, text]
  execLog,    \* commands the operation passed to execAsync, in order
  ruleInput,  \* argument handed to an operation of the rule-based generator
  ruleOut,    \* what that operation returned: [op, ...]
  config,     \* AIService.config: [provider, apiKey, model, endpoint]
  settings,   \* the settings store under yun-commit-helper.ai
  configNotice, \* what the last updateAIConfiguration showed the user
  gitService, \* whether the panel has a GitService (a workspace folder)
  gen,        \* the generation in progress or last settled
  parseInput, \* reply of a provider handed to parseAIResponse
  parseOut,   \* what parseAIResponse returned: [op, ...]
  aiGenerateBtn, \* the AI button of the webview: [disabled]
  posted,     \* messages the webview posted, not yet handled by the panel
  toWebview,  \* messages the panel posted, not yet received by the webview
  settled,    \* how the last request of the webview's generation settled
  panelGit,   \* a git operation of the panel: the commands it ran, which
              \* of them failed, and what the user was shown
  commitInput, \* what the commit form holds: [commitType, scope, message]
  commitOut,  \* what formatCommitMessage returned or handleCommit did
  watcher,    \* the FileWatcher: its fields, the timers and watchers it
              \* created, and what its callback has been asked
  refresh     \* refreshFileList calls under way and the status of the
              \* repository they read

gitVars == <<gitInput, execLog, panelGit>>

ruleVars == <<ruleInput, ruleOut>>

aiVars == <<config, settings, configNotice, gitService, gen>>

parseVars == <<parseInput, parseOut>>

webviewVars == <<aiGenerateBtn, posted, toWebview, settled>>

shellVars == <<commitInput, commitOut, watcher, refresh>>

vars ==
  <<gitInput, execLog, ruleInput, ruleOut, config, settings, configNotice,
    gitService, gen, parseInput, parseOut, aiGenerateBtn, posted, toWebview,
    settled, panelGit, commitInput, commitOut, watcher, refresh>>

-----------------------------------------------------------------------------
(* Characters and string primitives (JavaScript String semantics)          *)

DQ == "\""
BS == "\\"
\* the backtick, which a TLA+ string literal cannot hold
BT == "{backtick}"
DL == "$"
SP == " "
NL == "\n"
TAB == "\t"

WhiteSpace == {SP, NL, TAB}

BoundedSeq(S, n) == UNION {[1..k -> S] : k \in 0..n}

\* s.substring(i) with a 1-based start
Drop(s, n) == SubSeq(s, n + 1, Len(s))

StartsWith(s, p) == Len(p) <= Len(s) /\ SubSeq(s, 1, Len(p)) = p

EndsWith(s, p) ==
  Len(p) <= Len(s) /\ SubSeq(s, Len(s) - Len(p) + 1, Len(s)) = p

\* s.includes(p)
Includes(s, p) ==
  \E i \in 1..(Len(s) - Len(p) + 1) : SubSeq(s, i, i + Len(p) - 1) = p

RECURSIVE TrimStart(_)
TrimStart(s) ==
  IF s # <<>> /\ Head(s) \in WhiteSpace THEN TrimStart(Tail(s)) ELSE s

RECURSIVE TrimEnd(_)
TrimEnd(s) ==
  IF s # <<>> /\ s[Len(s)] \in WhiteSpace
  THEN TrimEnd(SubSeq(s, 1, Len(s) - 1))
  ELSE s

\* s.trim()
Trim(s) == TrimEnd(TrimStart(s))

\* s.replace(/[class]/g, "")
RECURSIVE RemoveChars(_, _)
RemoveChars(s, class) ==
  IF s = <<>> THEN <<>>
  ELSE IF Head(s) \in class THEN RemoveChars(Tail(s), class)
  ELSE <<Head(s)>> \o RemoveChars(Tail(s), class)

\* s.replace(/literal/g, ""): leftmost non-overlapping matches, one pass
RECURSIVE RemoveAll(_, _)
RemoveAll(s, lit) ==
  IF Len(s) < Len(lit) THEN s
  ELSE IF StartsWith(s, lit) THEN RemoveAll(Drop(s, Len(lit)), lit)
  ELSE <<Head(s)>> \o RemoveAll(Tail(s), lit)

\* s.replace(/[class]/g, "\\$&"): a backslash before every member
RECURSIVE EscapeChars(_, _)
EscapeChars(s, class) ==
  IF s = <<>> THEN <<>>
  ELSE IF Head(s) \in class
  THEN <<BS, Head(s)>> \o EscapeChars(Tail(s), class)
  ELSE <<Head(s)>> \o EscapeChars(Tail(s), class)

-----------------------------------------------------------------------------
(* AIService: configuration                                                *)

\* a value that is not set (JavaScript undefined)
Undefined == "undefined"

\* JavaScript truthiness of a string-or-undefined value
Truthy(v) == v # Undefined /\ v # ""

Providers == {"openai", "anthropic", "gemini", "local", "rules"}

RemoteProviders == {"openai", "anthropic", "gemini"}

\* the default endpoint of loadConfiguration
LocalEndpoint == "http://localhost:11434/api/generate"

ApiKey == "key"

\* x || y
OrElse(x, y) == IF Truthy(x) THEN x ELSE y

\* AIService.loadConfiguration: the settings store, then the environment
loadConfiguration(store, envKey) ==
  [provider |-> OrElse(store.provider, "rules"),
   apiKey |-> OrElse(store.apiKey, envKey),
   model |-> store.model,
   endpoint |-> OrElse(store.endpoint, LocalEndpoint)]

\* AIService.updateConfiguration: { ...this.config, ...newConfig }
updateConfiguration(cfg, newConfig) ==
  [f \in DOMAIN cfg |-> IF f \in DOMAIN newConfig THEN newConfig[f] ELSE cfg[f]]

\* AIService.isConfigured with the local provider always reported configured
isConfigured_localAlways(cfg) ==
  CASE cfg.provider \in RemoteProviders -> Truthy(cfg.apiKey)
    [] cfg.provider = "local" -> TRUE
    [] OTHER -> TRUE

isConfigured(cfg) ==
  CASE cfg.provider \in RemoteProviders -> Truthy(cfg.apiKey)
    [] cfg.provider = "local" -> Truthy(cfg.endpoint)
    [] OTHER -> TRUE

-----------------------------------------------------------------------------
(* GitService: sanitizers and the commands built from them                 *)

\* the character class of sanitizeFilePath's first replace
ShellMeta == {";", "&", "|", BT, DL, "(", ")", "{", "}", "[", "]"}

DotDotSlash == <<".", ".", "/">>

\* sanitizeFilePath with the dollar sign missing from the character class
sanitizeFilePath_noDollar(filePath) ==
  Trim(RemoveAll(RemoveChars(filePath, ShellMeta \ {DL}), DotDotSlash))

sanitizeFilePath(filePath) ==
  Trim(RemoveAll(RemoveChars(filePath, ShellMeta), DotDotSlash))

sanitizeCommitMessage(message) ==
  Trim(EscapeChars(EscapeChars(message, {DQ}), {BT, DL, BS}))

\* bounds of the inputs handed to the GitService operations
MaxPathLen == 6
MaxMetaLen == 2
MaxMsgLen == 4

PathChars == {".", "/", "a", ";"}
MetaPathChars == ShellMeta \cup {".", "/", "a", SP}
MsgChars == {DQ, BS, BT, DL, "a", SP}

\* "a; rm -rf /.ts", the path of the sanitization scenario
ScenarioPath ==
  <<"a", ";", SP, "r", "m", SP, "-", "r", "f", SP, "/", ".", "t", "s">>

PathInputs ==
  BoundedSeq(PathChars, MaxPathLen) \cup BoundedSeq(MetaPathChars, MaxMetaLen)
    \cup {ScenarioPath}

MsgInputs == BoundedSeq(MsgChars, MaxMsgLen)

\* values of the variables a specification leaves unused
NoGitInput == [kind |-> "none", text |-> <<>>]
NoRuleInput == [kind |-> "none"]
NoRuleOut == [op |-> "none"]
NoDiff == [head |-> <<>>, pad |-> 0]
NoResult == [kind |-> "none"]
NoReply == [raw |-> <<>>, json |-> [kind |-> "none"]]
NoParseOut == [op |-> "none"]
NoPanelGit ==
  [op |-> "none", ran |-> <<>>, failed |-> <<>>, notes |-> <<>>,
   refreshed |-> FALSE]
\* the messages of the panel the model lets wait in the webview
MaxInbox == 2

NoCommitInput == [commitType |-> <<>>, scope |-> <<>>, message |-> <<>>]
NoCommitOut == [op |-> "none"]
\* the panel before setupServices has made a FileWatcher
NoWatcher == [made |-> FALSE]
NoRefresh == [repo |-> 0, calls |-> <<>>, lastRead |-> 0]
NoOutcome == [kind |-> "none"]
Enabled == [disabled |-> FALSE]
Disabled == [disabled |-> TRUE]

DefaultSettings ==
  [provider |-> Undefined, apiKey |-> "", model |-> Undefined,
   endpoint |-> Undefined]

IdleGen ==
  [pc |-> "idle", caller |-> "none", hasStaged |-> FALSE, stdout |-> NoDiff,
   called |-> FALSE, diff |-> NoDiff, rules |-> NoResult,
   provider |-> "none", kept |-> NoDiff,
   result |-> NoResult, caught |-> FALSE, error |-> <<>>,
   requests |-> <<>>, notes |-> <<>>, outbox |-> <<>>]

GitInit ==
  /\ gitInput \in [kind : {"path"}, text : PathInputs]
                    \cup [kind : {"message"}, text : MsgInputs]
  /\ execLog = <<>>
  /\ ruleInput = NoRuleInput
  /\ ruleOut = NoRuleOut
  /\ settings = DefaultSettings
  /\ config = loadConfiguration(DefaultSettings, Undefined)
  /\ configNotice = "none"
  /\ gitService = TRUE
  /\ gen = IdleGen
  /\ parseInput = NoReply
  /\ parseOut = NoParseOut
  /\ aiGenerateBtn = Enabled
  /\ posted = <<>>
  /\ toWebview = <<>>
  /\ settled = NoOutcome
  /\ panelGit = NoPanelGit
  /\ commitInput = NoCommitInput
  /\ commitOut = NoCommitOut
  /\ watcher = NoWatcher
  /\ refresh = NoRefresh

\* GitService.stageFile
StageFile ==
  /\ gitInput.kind = "path"
  /\ execLog = <<>>
  /\ panelGit = NoPanelGit
  /\ execLog' = <<[cmd |-> "git add", arg |-> sanitizeFilePath(gitInput.text)]>>
  /\ UNCHANGED <<gitInput, panelGit, ruleVars, aiVars, parseVars, webviewVars, shellVars>>

\* GitService.unstageFile: git restore --staged, and git reset HEAD with the
\* same sanitized path when the first command fails
UnstageFile ==
  /\ gitInput.kind = "path"
  /\ execLog = <<>>
  /\ panelGit = NoPanelGit
  /\ \E restoreFails \in BOOLEAN :
       LET p == sanitizeFilePath(gitInput.text)
           first == [cmd |-> "git restore --staged", arg |-> p]
           second == [cmd |-> "git reset HEAD", arg |-> p]
       IN execLog' = IF restoreFails THEN <<first, second>> ELSE <<first>>
  /\ UNCHANGED <<gitInput, panelGit, ruleVars, aiVars, parseVars, webviewVars, shellVars>>

\* GitService.commit
Commit ==
  /\ gitInput.kind = "message"
  /\ execLog = <<>>
  /\ panelGit = NoPanelGit
  /\ execLog' =
       <<[cmd |-> "git commit -m", arg |-> sanitizeCommitMessage(gitInput.text)]>>
  /\ UNCHANGED <<gitInput, panelGit, ruleVars, aiVars, parseVars, webviewVars, shellVars>>

\* a notification shown to the user
Note(level, text) == [level |-> level, text |-> text]

\* the end of stageFile, unstageFile and stageAllFiles of the panel: the
\* commands GitService ran and which of them failed; raised says whether
\* the method of GitService threw
PanelGitDone(op, ran, failed, raised) ==
  [op |-> op, ran |-> ran, failed |-> failed,
   notes |-> IF raised THEN <<Note("error", op \o " failed")>>
             ELSE <<Note("info", op \o " done")>>,
   refreshed |-> ~raised]

\* CommitHelperProvider.stageFile
PanelStageFile ==
  /\ gitInput.kind = "path"
  /\ execLog = <<>>
  /\ panelGit = NoPanelGit
  /\ gitService
  /\ \E addFails \in BOOLEAN :
       panelGit' =
         PanelGitDone("stage",
                      <<[cmd |-> "git add",
                         arg |-> sanitizeFilePath(gitInput.text)]>>,
                      <<addFails>>, addFails)
  /\ UNCHANGED <<gitInput, execLog, ruleVars, aiVars, parseVars, webviewVars, shellVars>>

\* CommitHelperProvider.unstageFile: GitService.unstageFile runs git reset
\* HEAD when git restore --staged fails, and throws when that fails too
PanelUnstageFile ==
  /\ gitInput.kind = "path"
  /\ execLog = <<>>
  /\ panelGit = NoPanelGit
  /\ gitService
  /\ \E restoreFails \in BOOLEAN, resetFails \in BOOLEAN :
       LET p == sanitizeFilePath(gitInput.text)
           first == [cmd |-> "git restore --staged", arg |-> p]
           second == [cmd |-> "git reset HEAD", arg |-> p]
       IN panelGit' =
            IF restoreFails
            THEN PanelGitDone("unstage", <<first, second>>,
                              <<TRUE, resetFails>>, resetFails)
            ELSE PanelGitDone("unstage", <<first>>, <<FALSE>>, FALSE)
  /\ UNCHANGED <<gitInput, execLog, ruleVars, aiVars, parseVars, webviewVars, shellVars>>

\* CommitHelperProvider.stageAllFiles
PanelStageAllFiles ==
  /\ execLog = <<>>
  /\ panelGit = NoPanelGit
  /\ gitService
  /\ \E addFails \in BOOLEAN :
       panelGit' =
         PanelGitDone("stage all", <<[cmd |-> "git add .", arg |-> <<>>]>>,
                      <<addFails>>, addFails)
  /\ UNCHANGED <<gitInput, execLog, ruleVars, aiVars, parseVars, webviewVars, shellVars>>

GitNext ==
  \/ StageFile
  \/ UnstageFile
  \/ Commit
  \/ PanelStageFile
  \/ PanelUnstageFile
  \/ PanelStageAllFiles

-----------------------------------------------------------------------------
(* More string primitives                                                  *)

UpperChars ==
  <<"A", "B", "C", "D", "E", "F", "G", "H", "I", "J", "K", "L", "M",
    "N", "O", "P", "Q", "R", "S", "T", "U", "V", "W", "X", "Y", "Z">>

LowerChars ==
  <<"a", "b", "c", "d", "e", "f", "g", "h", "i", "j", "k", "l", "m",
    "n", "o", "p", "q", "r", "s", "t", "u", "v", "w", "x", "y", "z">>

LowerChar(c) ==
  IF \E i \in 1..26 : UpperChars[i] = c
  THEN LowerChars[CHOOSE i \in 1..26 : UpperChars[i] = c]
  ELSE c

\* s.toLowerCase()
ToLower(s) == [i \in 1..Len(s) |-> LowerChar(s[i])]

Digits == <<"0", "1", "2", "3", "4", "5", "6", "7", "8", "9">>

IsDigit(c) == \E i \in 1..10 : Digits[i] = c

DigitValue(c) == (CHOOSE i \in 1..10 : Digits[i] = c) - 1

\* the longest prefix of s matching \d*
RECURSIVE DigitRun(_)
DigitRun(s) ==
  IF s # <<>> /\ IsDigit(Head(s)) THEN <<Head(s)>> \o DigitRun(Tail(s))
  ELSE <<>>

\* parseInt of a run of digits
RECURSIVE ParseInt(_)
ParseInt(run) ==
  IF run = <<>> THEN 0
  ELSE 10 * ParseInt(SubSeq(run, 1, Len(run) - 1)) + DigitValue(run[Len(run)])

\* s.split(c)
RECURSIVE SplitOn(_, _)
SplitOn(s, c) ==
  IF \E i \in 1..Len(s) : s[i] = c
  THEN LET i == CHOOSE k \in 1..Len(s) :
                  s[k] = c /\ \A j \in 1..(k - 1) : s[j] # c
       IN <<SubSeq(s, 1, i - 1)>> \o SplitOn(Drop(s, i), c)
  ELSE <<s>>

\* the first index at which p occurs in s, 0 when it does not
IndexOf(s, p) ==
  IF Includes(s, p)
  THEN CHOOSE i \in 1..(Len(s) - Len(p) + 1) :
         /\ SubSeq(s, i, i + Len(p) - 1) = p
         /\ \A j \in 1..(i - 1) : SubSeq(s, j, j + Len(p) - 1) # p
  ELSE 0

\* /a|b|c/.test(s) for literal alternatives
IncludesAny(s, alternatives) == \E p \in alternatives : Includes(s, p)

\* /(a|b|c)$/.test(s) for literal alternatives
EndsWithAny(s, alternatives) == \E p \in alternatives : EndsWith(s, p)

RECURSIVE Flatten(_)
Flatten(ss) == IF ss = <<>> THEN <<>> ELSE Head(ss) \o Flatten(Tail(ss))

\* lines.join("\n")
RECURSIVE JoinLines(_)
JoinLines(ls) ==
  IF ls = <<>> THEN <<>>
  ELSE IF Len(ls) = 1 THEN ls[1]
  ELSE ls[1] \o <<NL>> \o JoinLines(Tail(ls))

\* [...new Set(xs)]: the distinct members in order of first occurrence
RECURSIVE Unique(_)
Unique(xs) ==
  IF xs = <<>> THEN <<>>
  ELSE LET init == Unique(SubSeq(xs, 1, Len(xs) - 1))
           last == xs[Len(xs)]
       IN IF \E i \in 1..Len(init) : init[i] = last THEN init
          ELSE Append(init, last)

Min(a, b) == IF a <= b THEN a ELSE b

-----------------------------------------------------------------------------
(* AIService: the rule-based generator                                     *)

FileMarker == <<"{dang}", "{an}", ":", SP>>
AdditionsMarker == <<"{xin}", "{zeng}", ":", SP, "+">>
DeletionsMarker == <<"{shan}", "{chu}", ":", SP, "-">>
FileCountMarker == <<"{bian}", "{geng}", "{dang}", "{an}", "{shu}",
    "{liang}", ":", SP>>

\* the match of /檔案: ([^\n]+)/ in one line, marker removed and trimmed
FileOfLine(line) ==
  LET i == IndexOf(line, FileMarker)
  IN IF i > 0 /\ i + Len(FileMarker) <= Len(line)
     THEN <<Trim(Drop(line, i + Len(FileMarker) - 1))>>
     ELSE <<>>

extractFilePatterns(summary) ==
  LET ls == SplitOn(summary, NL)
  IN Flatten([k \in 1..Len(ls) |-> FileOfLine(ls[k])])

\* sum of the numbers of all matches of /marker(\d+)/g
RECURSIVE SumMatches(_, _)
SumMatches(s, marker) ==
  IF Len(s) <= Len(marker) THEN 0
  ELSE IF StartsWith(s, marker) /\ IsDigit(s[Len(marker) + 1])
  THEN LET run == DigitRun(Drop(s, Len(marker)))
       IN ParseInt(run) + SumMatches(Drop(s, Len(marker) + Len(run)), marker)
  ELSE SumMatches(Tail(s), marker)

\* the number of the first match of /marker(\d+)/, 0 without a match
RECURSIVE FirstMatch(_, _)
FirstMatch(s, marker) ==
  IF Len(s) <= Len(marker) THEN 0
  ELSE IF StartsWith(s, marker) /\ IsDigit(s[Len(marker) + 1])
  THEN ParseInt(DigitRun(Drop(s, Len(marker))))
  ELSE FirstMatch(Tail(s), marker)

extractChangeStats(summary) ==
  [additions |-> SumMatches(summary, AdditionsMarker),
   deletions |-> SumMatches(summary, DeletionsMarker),
   fileCount |-> FirstMatch(summary, FileCountMarker)]

NewFeatureWords == {<<"{xin}", "{zeng}">>, <<"a", "d", "d">>, <<"c", "r",
    "e", "a", "t", "e">>, <<"i", "m", "p", "l", "e", "m", "e", "n", "t">>,
        <<"f", "e", "a", "t", "u", "r", "e">>}
BugFixWords == {<<"f", "i", "x">>, <<"b", "u", "g">>, <<"e", "r", "r", "o",
    "r">>, <<"{xiu}", "{fu}">>, <<"{cuo}", "{wu}">>, <<"{wen4}", "{ti}">>}
RefactorWords == {<<"r", "e", "f", "a", "c", "t", "o", "r">>, <<"{chong}",
    "{gou}">>, <<"r", "e", "o", "r", "g", "a", "n", "i", "z", "e">>, <<"r",
        "e", "s", "t", "r", "u", "c", "t", "u", "r", "e">>}
TestsWords == {<<"t", "e", "s", "t">>, <<"s", "p", "e", "c">>, <<"{ce}",
    "{shi4}">>}
DocsWords == {<<"r", "e", "a", "d", "m", "e">>, <<"d", "o", "c">>,
    <<"{wen2}", "{dang}">>, <<"{shuo}", "{ming}">>}
StylesWords == {<<"s", "t", "y", "l", "e">>, <<"f", "o", "r", "m", "a",
    "t">>, <<"c", "s", "s">>, <<"s", "c", "s", "s">>, <<"{ge2}", "{shi}">>}
ConfigWords == {<<"c", "o", "n", "f", "i", "g">>, <<"s", "e", "t", "t", "i",
    "n", "g">>, <<"p", "a", "c", "k", "a", "g", "e", ".", "j", "s", "o",
        "n">>, <<".", "j", "s", "o", "n">>, <<"{she}", "{ding}">>}

analyzeContent(content) ==
  [hasNewFeature |-> IncludesAny(content, NewFeatureWords),
   hasBugFix |-> IncludesAny(content, BugFixWords),
   hasRefactor |-> IncludesAny(content, RefactorWords),
   hasTests |-> IncludesAny(content, TestsWords),
   hasDocs |-> IncludesAny(content, DocsWords),
   hasStyles |-> IncludesAny(content, StylesWords),
   hasConfig |-> IncludesAny(content, ConfigWords)]

\* /\.(test|spec)\.(js|ts|jsx|tsx)$/
TestSuffixes ==
  {<<".", "t", "e", "s", "t", ".", "j", "s">>, <<".", "t", "e", "s", "t",
      ".", "t", "s">>, <<".", "t", "e", "s", "t", ".", "j", "s", "x">>,
          <<".", "t", "e", "s", "t", ".", "t", "s", "x">>,
   <<".", "s", "p", "e", "c", ".", "j", "s">>, <<".", "s", "p", "e", "c",
       ".", "t", "s">>, <<".", "s", "p", "e", "c", ".", "j", "s", "x">>,
           <<".", "s", "p", "e", "c", ".", "t", "s", "x">>}
DocSuffixes == {<<".", "m", "d">>, <<".", "t", "x", "t">>, <<".", "r", "s",
    "t">>}
ConfigSuffixes == {<<".", "j", "s", "o", "n">>, <<".", "y", "m", "l">>,
    <<".", "y", "a", "m", "l">>, <<".", "t", "o", "m", "l">>, <<".", "i",
        "n", "i">>}
StyleSuffixes == {<<".", "c", "s", "s">>, <<".", "s", "c", "s", "s">>, <<".",
    "s", "a", "s", "s">>, <<".", "l", "e", "s", "s">>, <<".", "s", "t", "y",
        "l", "u", "s">>}
PackageJson == <<"p", "a", "c", "k", "a", "g", "e", ".", "j", "s", "o", "n">>

IsTestFile(f) ==
  \/ EndsWithAny(f, TestSuffixes)
  \/ Includes(f, <<"/", "t", "e", "s", "t", "/">>)
  \/ Includes(f, <<"/", "t", "e", "s", "t", "s", "/">>)

IsDocFile(f) ==
  EndsWithAny(ToLower(f), DocSuffixes) \/ Includes(ToLower(f), <<"r", "e",
      "a", "d", "m", "e">>)

IsConfigFile(f) == EndsWithAny(f, ConfigSuffixes) \/ Includes(f, <<"c", "o",
    "n", "f", "i", "g">>)

IsStyleFile(f) == EndsWithAny(f, StyleSuffixes)

IsPackageManifest(f) == Includes(f, PackageJson)

\* determineCommitType with the bug-fix rule tested before the docs rule
determineCommitType_reordered(filePatterns, contentAnalysis, changeStats) ==
  LET hasTestFiles == (\E k \in 1..Len(filePatterns) : IsTestFile(filePatterns[k]))
      hasDocFiles == (\E k \in 1..Len(filePatterns) : IsDocFile(filePatterns[k]))
      hasConfigFiles == (\E k \in 1..Len(filePatterns) : IsConfigFile(filePatterns[k]))
      hasStyleFiles == (\E k \in 1..Len(filePatterns) : IsStyleFile(filePatterns[k]))
      hasNewFiles == changeStats.additions > changeStats.deletions * 2
      hasOnlyDeletions ==
        changeStats.additions = 0 /\ changeStats.deletions > 0
  IN IF hasTestFiles /\ contentAnalysis.hasTests
       THEN [type |-> "test", confidence |-> 90]
     ELSE IF contentAnalysis.hasBugFix
       THEN [type |-> "fix", confidence |-> 85]
     ELSE IF hasDocFiles /\ contentAnalysis.hasDocs
       THEN [type |-> "docs", confidence |-> 90]
     ELSE IF hasNewFiles /\ contentAnalysis.hasNewFeature
       THEN [type |-> "feat", confidence |-> 85]
     ELSE IF contentAnalysis.hasRefactor
       THEN [type |-> "refactor", confidence |-> 80]
     ELSE IF hasStyleFiles /\ contentAnalysis.hasStyles
       THEN [type |-> "style", confidence |-> 80]
     ELSE IF hasConfigFiles \/ contentAnalysis.hasConfig
       THEN IF (\E k \in 1..Len(filePatterns) : IsPackageManifest(filePatterns[k]))
            THEN [type |-> "build", confidence |-> 80]
            ELSE [type |-> "chore", confidence |-> 75]
     ELSE IF hasOnlyDeletions
       THEN [type |-> "refactor", confidence |-> 70]
     ELSE IF hasNewFiles
       THEN [type |-> "feat", confidence |-> 70]
     ELSE IF changeStats.fileCount = 1
       THEN [type |-> "fix", confidence |-> 65]
     ELSE [type |-> "chore", confidence |-> 60]

\* determineCommitType with the label of the feature type written out
determineCommitType_featureLabel(filePatterns, contentAnalysis, changeStats) ==
  LET hasTestFiles == (\E k \in 1..Len(filePatterns) : IsTestFile(filePatterns[k]))
      hasDocFiles == (\E k \in 1..Len(filePatterns) : IsDocFile(filePatterns[k]))
      hasConfigFiles == (\E k \in 1..Len(filePatterns) : IsConfigFile(filePatterns[k]))
      hasStyleFiles == (\E k \in 1..Len(filePatterns) : IsStyleFile(filePatterns[k]))
      hasNewFiles == changeStats.additions > changeStats.deletions * 2
      hasOnlyDeletions ==
        changeStats.additions = 0 /\ changeStats.deletions > 0
  IN IF hasTestFiles /\ contentAnalysis.hasTests
       THEN [type |-> "test", confidence |-> 90]
     ELSE IF hasDocFiles /\ contentAnalysis.hasDocs
       THEN [type |-> "docs", confidence |-> 90]
     ELSE IF contentAnalysis.hasBugFix
       THEN [type |-> "fix", confidence |-> 85]
     ELSE IF hasNewFiles /\ contentAnalysis.hasNewFeature
       THEN [type |-> "feature", confidence |-> 85]
     ELSE IF contentAnalysis.hasRefactor
       THEN [type |-> "refactor", confidence |-> 80]
     ELSE IF hasStyleFiles /\ contentAnalysis.hasStyles
       THEN [type |-> "style", confidence |-> 80]
     ELSE IF hasConfigFiles \/ contentAnalysis.hasConfig
       THEN IF (\E k \in 1..Len(filePatterns) : IsPackageManifest(filePatterns[k]))
            THEN [type |-> "build", confidence |-> 80]
            ELSE [type |-> "chore", confidence |-> 75]
     ELSE IF hasOnlyDeletions
       THEN [type |-> "refactor", confidence |-> 70]
     ELSE IF hasNewFiles
       THEN [type |-> "feature", confidence |-> 70]
     ELSE IF changeStats.fileCount = 1
       THEN [type |-> "fix", confidence |-> 65]
     ELSE [type |-> "chore", confidence |-> 60]

\* confidences are in hundredths: 90 is 0.9
determineCommitType(filePatterns, contentAnalysis, changeStats) ==
  LET hasTestFiles == (\E k \in 1..Len(filePatterns) : IsTestFile(filePatterns[k]))
      hasDocFiles == (\E k \in 1..Len(filePatterns) : IsDocFile(filePatterns[k]))
      hasConfigFiles == (\E k \in 1..Len(filePatterns) : IsConfigFile(filePatterns[k]))
      hasStyleFiles == (\E k \in 1..Len(filePatterns) : IsStyleFile(filePatterns[k]))
      hasNewFiles == changeStats.additions > changeStats.deletions * 2
      hasOnlyDeletions ==
        changeStats.additions = 0 /\ changeStats.deletions > 0
  IN IF hasTestFiles /\ contentAnalysis.hasTests
       THEN [type |-> "test", confidence |-> 90]
     ELSE IF hasDocFiles /\ contentAnalysis.hasDocs
       THEN [type |-> "docs", confidence |-> 90]
     ELSE IF contentAnalysis.hasBugFix
       THEN [type |-> "fix", confidence |-> 85]
     ELSE IF hasNewFiles /\ contentAnalysis.hasNewFeature
       THEN [type |-> "feat", confidence |-> 85]
     ELSE IF contentAnalysis.hasRefactor
       THEN [type |-> "refactor", confidence |-> 80]
     ELSE IF hasStyleFiles /\ contentAnalysis.hasStyles
       THEN [type |-> "style", confidence |-> 80]
     ELSE IF hasConfigFiles \/ contentAnalysis.hasConfig
       THEN IF (\E k \in 1..Len(filePatterns) : IsPackageManifest(filePatterns[k]))
            THEN [type |-> "build", confidence |-> 80]
            ELSE [type |-> "chore", confidence |-> 75]
     ELSE IF hasOnlyDeletions
       THEN [type |-> "refactor", confidence |-> 70]
     ELSE IF hasNewFiles
       THEN [type |-> "feat", confidence |-> 70]
     ELSE IF changeStats.fileCount = 1
       THEN [type |-> "fix", confidence |-> 65]
     ELSE [type |-> "chore", confidence |-> 60]

commonScopes ==
  {<<"c", "o", "m", "p", "o", "n", "e", "n", "t", "s">>, <<"s", "e", "r",
      "v", "i", "c", "e", "s">>, <<"u", "t", "i", "l", "s">>, <<"a", "p",
          "i">>, <<"a", "u", "t", "h">>, <<"u", "i">>,
   <<"c", "o", "r", "e">>}

IsScopeDir(d) == d # <<"s", "r", "c">> /\ d # <<".">> /\ Len(d) > 0

IsCommonScope(dir) == ToLower(dir) \in commonScopes

\* extractScope taking the last whitelisted directory, not the first
extractScope_lastMatch(filePatterns) ==
  IF Len(filePatterns) = 0 THEN <<>>
  ELSE LET firsts == [k \in 1..Len(filePatterns) |->
                        SplitOn(filePatterns[k], "/")[1]]
           uniqueDirs == Unique(SelectSeq(firsts, IsScopeDir))
           found == SelectSeq(uniqueDirs, IsCommonScope)
       IN IF Len(uniqueDirs) = 1 THEN uniqueDirs[1]
          ELSE IF found # <<>> THEN found[Len(found)]
          ELSE <<>>

\* the empty sequence is the empty string, the "no scope" result
extractScope(filePatterns) ==
  IF Len(filePatterns) = 0 THEN <<>>
  ELSE LET firsts == [k \in 1..Len(filePatterns) |->
                        SplitOn(filePatterns[k], "/")[1]]
           uniqueDirs == Unique(SelectSeq(firsts, IsScopeDir))
           found == SelectSeq(uniqueDirs, IsCommonScope)
       IN IF Len(uniqueDirs) = 1 THEN uniqueDirs[1]
          ELSE IF found # <<>> THEN found[1]
          ELSE <<>>

\* the label getPrimaryFileType gives one file, empty for none
FileTypeLabel(f) ==
  LET parts == SplitOn(f, ".")
      ext == ToLower(parts[Len(parts)])
      path == ToLower(f)
  IN IF ext \in {<<"t", "s", "x">>, <<"j", "s", "x">>} \/ Includes(path,
      <<"c", "o", "m", "p", "o", "n", "e", "n", "t">>)
       THEN <<"{zu}", "{jian}">>
     ELSE IF ext \in {<<"t", "s">>, <<"j", "s">>} THEN <<"J", "S">>
     ELSE IF ext \in {<<"c", "s", "s">>, <<"s", "c", "s", "s">>, <<"s", "a",
         "s", "s">>} THEN <<"{yang}", "{shi}">>
     ELSE IF ext = <<"m", "d">> THEN <<"{wen2}", "{dang}">>
     ELSE IF ext \in {<<"j", "s", "o", "n">>, <<"y", "m", "l">>, <<"y", "a",
         "m", "l">>} THEN <<"{pei}", "{zhi}">>
     ELSE IF Includes(path, <<"t", "e", "s", "t">>) \/ Includes(path, <<"s",
         "p", "e", "c">>)
       THEN <<"{ce}", "{shi4}">>
     ELSE IF Includes(path, <<"a", "p", "i">>) \/ Includes(path, <<"s", "e",
         "r", "v", "i", "c", "e">>)
       THEN <<"A", "P", "I">>
     ELSE <<>>

IsNonEmpty(t) == t # <<>>

CountOf(xs, x) == Cardinality({i \in 1..Len(xs) : xs[i] = x})

\* the most frequent label, the earliest one among equals (stable sort)
getPrimaryFileType(filePatterns) ==
  IF Len(filePatterns) = 0 THEN <<>>
  ELSE LET types == SelectSeq([k \in 1..Len(filePatterns) |->
                              FileTypeLabel(filePatterns[k])], IsNonEmpty)
           labels == Unique(types)
       IN IF labels = <<>> THEN <<>>
          ELSE labels[CHOOSE i \in 1..Len(labels) :
                 /\ \A j \in 1..Len(labels) :
                      CountOf(types, labels[i]) >= CountOf(types, labels[j])
                 /\ \A j \in 1..(i - 1) :
                      CountOf(types, labels[j]) < CountOf(types, labels[i])]

generateMessage(type, filePatterns, changeStats, contentAnalysis) ==
  LET hasMultipleFiles == changeStats.fileCount > 1
      primaryFileType == getPrimaryFileType(filePatterns)
  IN CASE type = "feat" ->
            IF contentAnalysis.hasNewFeature
            THEN (IF hasMultipleFiles THEN <<"{xin}", "{zeng}", "{gong}",
                "{neng}", "{mo}", "{zu}">> ELSE <<"{xin}", "{zeng}",
                    "{gong}", "{neng}">>)
            ELSE IF primaryFileType # <<>>
            THEN <<"{xin}", "{zeng}">> \o primaryFileType \o <<"{gong}",
                "{neng}">>
            ELSE <<"{xin}", "{zeng}", "{gong}", "{neng}">>
       [] type = "fix" ->
            IF contentAnalysis.hasBugFix
            THEN (IF hasMultipleFiles THEN <<"{xiu}", "{fu}", "{duo}",
                "{ge4}", "{wen4}", "{ti}">> ELSE <<"{xiu}", "{fu}", "{wen4}",
                    "{ti}">>)
            ELSE IF primaryFileType # <<>>
            THEN <<"{xiu}", "{fu}">> \o primaryFileType \o <<"{wen4}", "{ti}">>
            ELSE <<"{xiu}", "{fu}", "{wen4}", "{ti}">>
       [] type = "docs" ->
            IF hasMultipleFiles THEN <<"{geng}", "{xin}", "{wen2}",
                "{dang}">> ELSE <<"{geng}", "{xin}", "{shuo}", "{ming}",
                    "{wen2}", "{dang}">>
       [] type = "test" ->
            IF hasMultipleFiles THEN <<"{geng}", "{xin}", "{ce}", "{shi4}",
                "{yong}", "{li}">> ELSE <<"{xin}", "{zeng}", "{ce}", "{shi4}">>
       [] type = "refactor" ->
            IF primaryFileType # <<>>
            THEN <<"{chong}", "{gou}">> \o primaryFileType \o <<"{dai}",
                "{ma}">>
            ELSE <<"{chong}", "{gou}", "{dai}", "{ma}">>
       [] type = "style" -> <<"{tiao}", "{zheng}", "{dai}", "{ma}", "{ge2}",
           "{shi}">>
       [] type = "build" ->
            IF (\E k \in 1..Len(filePatterns) : IsPackageManifest(filePatterns[k]))
            THEN <<"{geng}", "{xin}", "{yi}", "{lai}", "{pei}", "{zhi}">>
            ELSE <<"{geng}", "{xin}", "{jian4}", "{zhi}", "{pei}", "{zhi}">>
       [] OTHER ->
            IF primaryFileType # <<>> THEN <<"{geng}",
                "{xin}">> \o primaryFileType
            ELSE IF hasMultipleFiles THEN <<"{geng}", "{xin}", "{duo}",
                "{ge4}", "{dang}", "{an}">>
            ELSE <<"{geng}", "{xin}", "{dai}", "{ma}">>

\* the cap of the rule-based path, in hundredths
RuleConfidenceCap == 90

\* an AICommitContent; an empty scope stands for the undefined scope
generateWithEnhancedRules(diffSummary) ==
  LET lines == ToLower(diffSummary)
      filePatterns == extractFilePatterns(diffSummary)
      changeStats == extractChangeStats(diffSummary)
      contentAnalysis == analyzeContent(lines)
      typeAnalysis ==
        determineCommitType(filePatterns, contentAnalysis, changeStats)
  IN [type |-> typeAnalysis.type,
      scope |-> extractScope(filePatterns),
      message |-> generateMessage(typeAnalysis.type, filePatterns,
                                  changeStats, contentAnalysis),
      confidence |-> Min(typeAnalysis.confidence, RuleConfidenceCap)]

-----------------------------------------------------------------------------
(* Inputs of the rule-based generator                                      *)

MaxDiffLines == 2
MaxClassifyFiles == 2
MaxScopeFiles == 3

\* file paths
ReadmeMd == <<"R", "E", "A", "D", "M", "E", ".", "m", "d">>
LoginTestTs == <<"s", "r", "c", "/", "a", "u", "t", "h", "/", "l", "o", "g",
        "i", "n", ".", "t", "e", "s", "t", ".", "t", "s">>
MainCss == <<"s", "t", "y", "l", "e", "s", "/", "m", "a", "i", "n", ".", "c",
        "s", "s">>
AppYml == <<"a", "p", "p", ".", "y", "m", "l">>
SrcAuthLoginTs == <<"s", "r", "c", "/", "a", "u", "t", "h", "/", "l", "o",
        "g", "i", "n", ".", "t", "s">>
SrcAuthTokenTs == <<"s", "r", "c", "/", "a", "u", "t", "h", "/", "t", "o",
        "k", "e", "n", ".", "t", "s">>
AuthLoginTs == <<"a", "u", "t", "h", "/", "l", "o", "g", "i", "n", ".", "t",
        "s">>
UiAppTsx == <<"u", "i", "/", "A", "p", "p", ".", "t", "s", "x">>
LibXTs == <<"l", "i", "b", "/", "x", ".", "t", "s">>
DotATs == <<".", "/", "a", ".", "t", "s">>
UpperUiAppTsx == <<"U", "I", "/", "A", "p", "p", ".", "t", "s", "x">>

\* lines a diff summary is assembled from
StatLine == <<"{xin}", "{zeng}", ":", SP, "+", "1", "2", "0", SP, "{shan}",
        "{chu}", ":", SP, "-", "1", "0">>
DeletionLine == <<"{shan}", "{chu}", ":", SP, "-", "3">>
FileCountLine == <<"{bian}", "{geng}", "{dang}", "{an}", "{shu}", "{liang}",
        ":", SP, "1">>
FixLine == <<"+", SP, "f", "i", "x", SP, "b", "u", "g">>
RefactorLine == <<"-", SP, "r", "e", "f", "a", "c", "t", "o", "r">>
PlainLine == <<"+", "x">>

LineVocab ==
  {FileMarker \o LoginTestTs, FileMarker \o ReadmeMd, FileMarker \o MainCss,
   FileMarker \o PackageJson, StatLine, DeletionLine, FileCountLine, FixLine,
   RefactorLine, PlainLine}

DiffInputs == {JoinLines(ls) : ls \in BoundedSeq(LineVocab, MaxDiffLines)}

ClassifyFiles == {ReadmeMd, LoginTestTs, MainCss, PackageJson, AppYml}

ScopeFiles ==
  {SrcAuthLoginTs, SrcAuthTokenTs, AuthLoginTs, UiAppTsx, LibXTs, DotATs,
   ReadmeMd, UpperUiAppTsx}

ContentFlags ==
  [hasNewFeature : BOOLEAN, hasBugFix : BOOLEAN, hasRefactor : BOOLEAN,
   hasTests : BOOLEAN, hasDocs : BOOLEAN, hasStyles : BOOLEAN,
   hasConfig : BOOLEAN]

\* net-new code, deletions only, no change, and a balanced change
LineCounts == {<<120, 10>>, <<0, 10>>, <<0, 0>>, <<120, 100>>}

ChangeStats ==
  {[additions |-> c[1], deletions |-> c[2], fileCount |-> n] :
     c \in LineCounts, n \in {1, 5}}

RuleInputs ==
  [kind : {"diff"}, text : DiffInputs]
    \cup [kind : {"signals"},
          files : BoundedSeq(ClassifyFiles, MaxClassifyFiles),
          flags : ContentFlags, stats : ChangeStats]
    \cup [kind : {"files"}, files : BoundedSeq(ScopeFiles, MaxScopeFiles)]

RuleInit ==
  /\ ruleInput \in RuleInputs
  /\ ruleOut = NoRuleOut
  /\ gitInput = NoGitInput
  /\ execLog = <<>>
  /\ settings = DefaultSettings
  /\ config = loadConfiguration(DefaultSettings, Undefined)
  /\ configNotice = "none"
  /\ gitService = TRUE
  /\ gen = IdleGen
  /\ parseInput = NoReply
  /\ parseOut = NoParseOut
  /\ aiGenerateBtn = Enabled
  /\ posted = <<>>
  /\ toWebview = <<>>
  /\ settled = NoOutcome
  /\ panelGit = NoPanelGit
  /\ commitInput = NoCommitInput
  /\ commitOut = NoCommitOut
  /\ watcher = NoWatcher
  /\ refresh = NoRefresh

\* AIService.generateWithEnhancedRules applied to the diff summary
GenerateWithEnhancedRules ==
  /\ ruleInput.kind = "diff"
  /\ ruleOut.op = "none"
  /\ ruleOut' = [op |-> "generateWithEnhancedRules",
                 content |-> generateWithEnhancedRules(ruleInput.text)]
  /\ UNCHANGED <<ruleInput, gitVars, aiVars, parseVars, webviewVars, shellVars>>

\* AIService.determineCommitType applied to extracted signals
DetermineCommitType ==
  /\ ruleInput.kind = "signals"
  /\ ruleOut.op = "none"
  /\ ruleOut' = [op |-> "determineCommitType",
                 result |-> determineCommitType(ruleInput.files,
                                                ruleInput.flags,
                                                ruleInput.stats)]
  /\ UNCHANGED <<ruleInput, gitVars, aiVars, parseVars, webviewVars, shellVars>>

\* AIService.extractScope applied to a list of file paths
ExtractScope ==
  /\ ruleInput.kind = "files"
  /\ ruleOut.op = "none"
  /\ ruleOut' = [op |-> "extractScope",
                 scope |-> extractScope(ruleInput.files)]
  /\ UNCHANGED <<ruleInput, gitVars, aiVars, parseVars, webviewVars, shellVars>>

RuleNext == GenerateWithEnhancedRules \/ DetermineCommitType \/ ExtractScope

SpecGit == GitInit /\ [][GitNext]_vars

SpecRules == RuleInit /\ [][RuleNext]_vars

-----------------------------------------------------------------------------
(* AIService: the provider gateway                                         *)

MAX_DIFF_LENGTH == 8000
GEMINI_MAX_DIFF_LENGTH == 3000
GEMINI_SUMMARY_LENGTH == 800

\* A diff summary is the text head, followed when pad > 0 by a line break
\* and a run of the letter x that brings the length to Len(head) + pad.
DiffLength(diff) == Len(diff.head) + diff.pad

\* !diffSummary.trim()
IsBlank(diff) == diff.pad = 0 /\ Trim(diff.head) = <<>>

\* The run of x holds no marker, keyword, digit or path, so the rule-based
\* generator reads a padded summary as it reads the head and one line "x".
DiffText(diff) == IF diff.pad = 0 THEN diff.head ELSE diff.head \o <<NL, "x">>

\* isLargeDiffForProvider with one limit for every provider that has one
isLargeDiffForProvider_sameLimit(cfg, diff) ==
  CASE cfg.provider = "gemini" -> DiffLength(diff) > GEMINI_MAX_DIFF_LENGTH
    [] cfg.provider \in {"openai", "anthropic"} ->
         DiffLength(diff) > MAX_DIFF_LENGTH
    [] cfg.provider = "local" -> DiffLength(diff) > MAX_DIFF_LENGTH
    [] OTHER -> FALSE

isLargeDiffForProvider(cfg, diff) ==
  CASE cfg.provider = "gemini" -> DiffLength(diff) > GEMINI_MAX_DIFF_LENGTH
    [] cfg.provider \in {"openai", "anthropic"} ->
         DiffLength(diff) > MAX_DIFF_LENGTH
    [] cfg.provider = "local" -> 2 * DiffLength(diff) > 3 * MAX_DIFF_LENGTH
    [] OTHER -> FALSE

\* messages of the errors thrown inside generateCommitContent
NoStagedFiles == <<"{mei}", "{you}", "{yi3}", "{zan}", "{cun}", "{de}",
        "{dang}", "{an}", "{ke}", "{gong1}", "{fen}", "{xi}">>
ErrOpenAIKey == <<"O", "p", "e", "n", "A", "I", SP, "A", "P", "I", SP, "k",
        "e", "y", SP, "n", "o", "t", SP, "c", "o", "n", "f", "i", "g", "u",
        "r", "e", "d">>
ErrOpenAIStatus == <<"O", "p", "e", "n", "A", "I", SP, "A", "P", "I", SP,
        "e", "r", "r", "o", "r", ":", SP>>
ErrOpenAIEmpty == <<"N", "o", SP, "c", "o", "n", "t", "e", "n", "t", SP, "r",
        "e", "c", "e", "i", "v", "e", "d", SP, "f", "r", "o", "m", SP, "O",
        "p", "e", "n", "A", "I">>
ErrAnthropicKey == <<"A", "n", "t", "h", "r", "o", "p", "i", "c", SP, "A",
        "P", "I", SP, "k", "e", "y", SP, "n", "o", "t", SP, "c", "o", "n",
        "f", "i", "g", "u", "r", "e", "d">>
ErrAnthropicStatus == <<"A", "n", "t", "h", "r", "o", "p", "i", "c", SP, "A",
        "P", "I", SP, "e", "r", "r", "o", "r", ":", SP>>
ErrAnthropicEmpty == <<"N", "o", SP, "c", "o", "n", "t", "e", "n", "t", SP,
        "r", "e", "c", "e", "i", "v", "e", "d", SP, "f", "r", "o", "m", SP,
        "A", "n", "t", "h", "r", "o", "p", "i", "c">>
ErrGeminiKey == <<"G", "o", "o", "g", "l", "e", SP, "G", "e", "m", "i", "n",
        "i", SP, "A", "P", "I", SP, "k", "e", "y", SP, "n", "o", "t", SP,
        "c", "o", "n", "f", "i", "g", "u", "r", "e", "d">>
ErrGeminiConnect == <<"C", "a", "n", "n", "o", "t", SP, "c", "o", "n", "n",
        "e", "c", "t", SP, "t", "o", SP, "G", "o", "o", "g", "l", "e", SP,
        "G", "e", "m", "i", "n", "i", ":", SP>>
ErrGeminiConnectTail ==
  <<".", SP, "P", "l", "e", "a", "s", "e", SP, "c", "h", "e", "c", "k", SP,
          "y", "o", "u", "r", SP, "A", "P", "I", SP, "k", "e", "y", SP, "a",
          "n", "d", SP, "i", "n", "t", "e", "r", "n", "e", "t", SP, "c", "o",
          "n", "n", "e", "c", "t", "i", "o", "n", ".">>
ErrGeminiValidation == <<"E", "r", "r", "o", "r", ":", SP, "G", "e", "m",
        "i", "n", "i", SP, "A", "P", "I", SP, "k", "e", "y", SP, "v", "a",
        "l", "i", "d", "a", "t", "i", "o", "n", SP, "f", "a", "i", "l", "e",
        "d", ":", SP>>
ErrGeminiStatus == <<"G", "o", "o", "g", "l", "e", SP, "G", "e", "m", "i",
        "n", "i", SP, "A", "P", "I", SP, "e", "r", "r", "o", "r", ":", SP>>
ErrGeminiNoCandidates ==
  <<"G", "e", "m", "i", "n", "i", SP, "A", "P", "I", SP, "r", "e", "t", "u",
          "r", "n", "e", "d", SP, "n", "o", SP, "c", "a", "n", "d", "i", "d",
          "a", "t", "e", "s", ".", SP, "C", "h", "e", "c", "k", SP, "y", "o",
          "u", "r", SP, "A", "P", "I", SP, "k", "e", "y", SP, "a", "n", "d",
          SP, "q", "u", "o", "t", "a", ".">>
ErrGeminiSafety ==
  <<"G", "e", "m", "i", "n", "i", SP, "b", "l", "o", "c", "k", "e", "d", SP,
          "t", "h", "e", SP, "r", "e", "s", "p", "o", "n", "s", "e", SP, "d",
          "u", "e", SP, "t", "o", SP, "s", "a", "f", "e", "t", "y", SP, "c",
          "o", "n", "c", "e", "r", "n", "s", ".", SP, "T", "r", "y", SP, "a",
          SP, "d", "i", "f", "f", "e", "r", "e", "n", "t", SP, "i", "n", "p",
          "u", "t", ".">>
ErrGeminiRecitation ==
  <<"G", "e", "m", "i", "n", "i", SP, "b", "l", "o", "c", "k", "e", "d", SP,
          "t", "h", "e", SP, "r", "e", "s", "p", "o", "n", "s", "e", SP, "d",
          "u", "e", SP, "t", "o", SP, "r", "e", "c", "i", "t", "a", "t", "i",
          "o", "n", SP, "c", "o", "n", "c", "e", "r", "n", "s", ".">>
ErrGeminiEmpty ==
  <<"N", "o", SP, "c", "o", "n", "t", "e", "n", "t", SP, "r", "e", "c", "e",
          "i", "v", "e", "d", SP, "f", "r", "o", "m", SP, "G", "o", "o", "g",
          "l", "e", SP, "G", "e", "m", "i", "n", "i", ".", SP, "R", "e", "s",
          "p", "o", "n", "s", "e", SP, "s", "t", "r", "u", "c", "t", "u",
          "r", "e", ":", SP>>
ErrLocalEndpoint == <<"L", "o", "c", "a", "l", SP, "A", "I", SP, "e", "n",
        "d", "p", "o", "i", "n", "t", SP, "n", "o", "t", SP, "c", "o", "n",
        "f", "i", "g", "u", "r", "e", "d">>
ErrLocalConnect == <<"C", "a", "n", "n", "o", "t", SP, "c", "o", "n", "n",
        "e", "c", "t", SP, "t", "o", SP, "l", "o", "c", "a", "l", SP, "A",
        "I", SP, "s", "e", "r", "v", "i", "c", "e", SP, "a", "t", SP>>
ErrLocalConnectTail ==
  <<".", SP, "P", "l", "e", "a", "s", "e", SP, "c", "h", "e", "c", "k", SP,
          "i", "f", SP, "O", "l", "l", "a", "m", "a", SP, "o", "r", SP, "y",
          "o", "u", "r", SP, "l", "o", "c", "a", "l", SP, "A", "I", SP, "i",
          "s", SP, "r", "u", "n", "n", "i", "n", "g", ".">>
ErrLocalStatus == <<"L", "o", "c", "a", "l", SP, "A", "I", SP, "e", "r", "r",
        "o", "r", ":", SP>>
ErrLocalEmpty == <<"N", "o", SP, "c", "o", "n", "t", "e", "n", "t", SP, "r",
        "e", "c", "e", "i", "v", "e", "d", SP, "f", "r", "o", "m", SP, "l",
        "o", "c", "a", "l", SP, "A", "I">>

\* what the runtime reports for a failed fetch, an expired
\* AbortSignal.timeout and a body that is not the expected JSON
FetchFailed == <<"f", "e", "t", "c", "h", SP, "f", "a", "i", "l", "e", "d">>
TimedOut == <<"T", "h", "e", SP, "o", "p", "e", "r", "a", "t", "i", "o", "n",
        SP, "w", "a", "s", SP, "a", "b", "o", "r", "t", "e", "d", SP, "d",
        "u", "e", SP, "t", "o", SP, "t", "i", "m", "e", "o", "u", "t">>
BadBody == <<"U", "n", "e", "x", "p", "e", "c", "t", "e", "d", SP, "t", "o",
        "k", "e", "n", SP, "<", SP, "i", "n", SP, "J", "S", "O", "N", SP,
        "a", "t", SP, "p", "o", "s", "i", "t", "i", "o", "n", SP, "0">>

\* texts a server puts in a status line or an error body
StatusTexts == {<<"U", "n", "a", "u", "t", "h", "o", "r", "i", "z", "e",
        "d">>, <<"T", "o", "o", SP, "M", "a", "n", "y", SP, "R", "e", "q",
        "u", "e", "s", "t", "s">>}
ErrorBodies == {<<"I", "n", "t", "e", "r", "n", "a", "l", SP, "e", "r", "r",
        "o", "r">>, <<"A", "P", "I", SP, "k", "e", "y", SP, "n", "o", "t",
        SP, "v", "a", "l", "i", "d">>}

\* the endpoint as it appears inside an error message
EndpointText(endpoint) ==
  IF endpoint = LocalEndpoint
  THEN <<"h", "t", "t", "p", ":", "/", "/", "l", "o", "c", "a", "l", "h",
          "o", "s", "t", ":", "1", "1", "4", "3", "4", "/", "a", "p", "i",
          "/", "g", "e", "n", "e", "r", "a", "t", "e">>
  ELSE <<>>

\* AIService.showProviderError: the warning shown, if any
showProviderError(cfg, errorMessage) ==
  IF cfg.provider = "local" /\ Includes(errorMessage, <<"f", "e", "t", "c",
          "h", SP, "f", "a", "i", "l", "e", "d">>)
    THEN <<Note("warning", "local AI service connection failed")>>
  ELSE IF cfg.provider = "openai" /\ Includes(errorMessage, <<"A", "P", "I",
          SP, "k", "e", "y">>)
    THEN <<Note("warning", "OpenAI API key not set")>>
  ELSE IF cfg.provider = "gemini" /\ Includes(errorMessage, <<"A", "P", "I",
          SP, "k", "e", "y">>)
    THEN <<Note("warning", "Gemini API key not set")>>
  ELSE IF cfg.provider = "gemini"
            /\ Includes(errorMessage, <<"t", "r", "u", "n", "c", "a", "t",
                    "e", "d", SP, "d", "u", "e", SP, "t", "o", SP, "t", "o",
                    "k", "e", "n", SP, "l", "i", "m", "i", "t">>)
    THEN <<Note("warning", "Gemini response truncated")>>
  ELSE IF cfg.provider = "gemini"
            /\ Includes(errorMessage, <<"s", "a", "f", "e", "t", "y", SP,
                    "c", "o", "n", "c", "e", "r", "n", "s">>)
    THEN <<Note("warning", "Gemini blocked the response")>>
  ELSE <<>>

\* n as a decimal numeral
RECURSIVE ToDecimal(_)
ToDecimal(n) ==
  IF n < 10 THEN <<Digits[n + 1]>>
  ELSE ToDecimal(n \div 10) \o <<Digits[(n % 10) + 1]>>

\* parts.join(sep)
RECURSIVE Join(_, _)
Join(parts, sep) ==
  IF parts = <<>> THEN <<>>
  ELSE IF Len(parts) = 1 THEN parts[1]
  ELSE parts[1] \o sep \o Join(Tail(parts), sep)

IsWordChar(c) ==
  \/ IsDigit(c)
  \/ c = "_"
  \/ \E i \in 1..26 : LowerChars[i] = c \/ UpperChars[i] = c

\* the longest prefix of s matching \w*
RECURSIVE WordRun(_)
WordRun(s) ==
  IF s # <<>> /\ IsWordChar(Head(s)) THEN <<Head(s)>> \o WordRun(Tail(s))
  ELSE <<>>

QuoteChars == {"'", DQ}

\* the longest prefix of s matching [^'"]*
RECURSIVE NonQuoteRun(_)
NonQuoteRun(s) ==
  IF s # <<>> /\ Head(s) \notin QuoteChars
  THEN <<Head(s)>> \o NonQuoteRun(Tail(s))
  ELSE <<>>

\* the positions of s, in order, at which a match of a pattern may start
Positions(s) == [i \in 1..Len(s) |-> i]

-----------------------------------------------------------------------------
(* AIService: the summary sent to Gemini                                   *)

FileWord == <<"{dang}", "{an}", ":">>
AddedWord == <<"{xin}", "{zeng}", ":">>
DeletedWord == <<"{shan}", "{chu}", ":">>
ImportWords == {<<"r", "e", "q", "u", "i", "r", "e", "(">>, <<"i", "m", "p",
        "o", "r", "t", SP>>, <<"f", "r", "o", "m", SP>>}
FunctionWords ==
  {<<"f", "u", "n", "c", "t", "i", "o", "n", SP>>, <<"c", "o", "n", "s", "t",
          SP>>, <<"=", SP, "a", "s", "y", "n", "c">>, <<"=", SP, "(">>,
          <<"s", "w", "i", "t", "c", "h">>, <<"c", "a", "s", "e", SP>>}

\* the lines of a diff summary; the run of x is one line
DiffLines(diff) ==
  SplitOn(diff.head, NL) \o (IF diff.pad > 0 THEN << <<"x">> >> ELSE <<>>)

\* line.replace(/^[+-]\s*/, "")
StripSign(line) ==
  IF line # <<>> /\ Head(line) \in {"+", "-"} THEN TrimStart(Tail(line))
  ELSE line

IsChangeLine(line) ==
  StartsWith(Trim(line), <<"+">>) \/ StartsWith(Trim(line), <<"-">>)

\* ['"]([^'"]+)['"] at the head of s: the group, <<>> without a match
QuotedName(s) ==
  IF s # <<>> /\ Head(s) \in QuoteChars
  THEN LET run == NonQuoteRun(Tail(s))
       IN IF run # <<>> /\ Len(s) >= Len(run) + 2
               /\ s[Len(run) + 2] \in QuoteChars
          THEN run ELSE <<>>
  ELSE <<>>

\* require\(['"]([^'"]+)['"]\) at the head of s
RequireAt(s) ==
  IF StartsWith(s, <<"r", "e", "q", "u", "i", "r", "e", "(">>)
  THEN LET name == QuotedName(Drop(s, 8))
       IN IF name # <<>> /\ Len(s) >= Len(name) + 11
               /\ s[Len(name) + 11] = ")"
          THEN name ELSE <<>>
  ELSE <<>>

\* from ['"]([^'"]+)['"] at the head of s
FromAt(s) == IF StartsWith(s, <<"f", "r", "o", "m",
        SP>>) THEN QuotedName(Drop(s, 5)) ELSE <<>>

\* the module a line names: the group of the leftmost match of
\* /require\(['"]([^'"]+)['"]\)|from ['"]([^'"]+)['"]/, the line without
\* its sign when nothing matches
ModuleOf(line) ==
  LET at(i) == IF RequireAt(Drop(line, i - 1)) # <<>>
               THEN RequireAt(Drop(line, i - 1))
               ELSE FromAt(Drop(line, i - 1))
      hits == SelectSeq(Positions(line), LAMBDA i : at(i) # <<>>)
  IN IF hits # <<>> THEN at(hits[1]) ELSE Trim(StripSign(line))

\* keyword\s+(\w+) at the head of s: the group and the length matched
KeywordName(s, keyword) ==
  IF StartsWith(s, keyword)
  THEN LET rest == Drop(s, Len(keyword))
           name == WordRun(TrimStart(rest))
       IN IF TrimStart(rest) # rest /\ name # <<>>
          THEN [name |-> name,
                end |-> Len(s) - Len(TrimStart(rest)) + Len(name)]
          ELSE [name |-> <<>>, end |-> 0]
  ELSE [name |-> <<>>, end |-> 0]

\* the group of the leftmost match of /function\s+(\w+)/
FunctionNameOf(clean) ==
  LET at(i) == KeywordName(Drop(clean, i - 1), <<"f", "u", "n", "c", "t",
          "i", "o", "n">>).name
      hits == SelectSeq(Positions(clean), LAMBDA i : at(i) # <<>>)
  IN IF hits # <<>> THEN at(hits[1]) ELSE <<>>

\* the group of the leftmost match of /const\s+(\w+)\s*=/
ConstNameOf(clean) ==
  LET at(i) ==
        LET s == Drop(clean, i - 1)
            m == KeywordName(s, <<"c", "o", "n", "s", "t">>)
        IN IF m.name # <<>> /\ StartsWith(TrimStart(Drop(s, m.end)), <<"=">>)
           THEN m.name ELSE <<>>
      hits == SelectSeq(Positions(clean), LAMBDA i : at(i) # <<>>)
  IN IF hits # <<>> THEN at(hits[1]) ELSE <<>>

Ellipsis(clean, n) ==
  IF Len(clean) > n THEN SubSeq(clean, 1, n) \o <<".", ".", ".">> ELSE clean

\* the label of one changed function line
FunctionLabel(line) ==
  LET clean == Trim(StripSign(line))
  IN IF Includes(clean, <<"f", "u", "n", "c", "t", "i", "o", "n", SP>>)
     THEN (IF FunctionNameOf(clean) # <<>>
           THEN FunctionNameOf(clean) \o <<"(", ")">> ELSE <<"{xin}",
                   "{han}", "{shu}">>)
     ELSE IF Includes(clean, <<"c", "o", "n", "s", "t",
             SP>>) /\ Includes(clean, <<"=">>)
     THEN (IF ConstNameOf(clean) # <<>>
           THEN ConstNameOf(clean) \o <<"(", ")">> ELSE <<"{xin}", "{chang}",
                   "{shu}">>)
     ELSE IF Includes(clean, <<"s", "w", "i", "t", "c",
             "h">>) \/ Includes(clean, <<"c", "a", "s", "e">>)
     THEN Ellipsis(clean, 50)
     ELSE Ellipsis(clean, 40)

\* the number of the leftmost match of /word\s*sign(\d+)/ in a line
RECURSIVE CountAfter(_, _, _)
CountAfter(line, word, sign) ==
  IF line = <<>> THEN 0
  ELSE LET rest == TrimStart(Drop(line, Len(word)))
       IN IF StartsWith(line, word) /\ StartsWith(rest, sign)
               /\ DigitRun(Tail(rest)) # <<>>
          THEN ParseInt(DigitRun(Tail(rest)))
          ELSE CountAfter(Tail(line), word, sign)

RECURSIVE SumOf(_)
SumOf(ns) == IF ns = <<>> THEN 0 ELSE Head(ns) + SumOf(Tail(ns))

\* the sections kept by the last step: whole lines while they fit
RECURSIVE KeepSections(_, _, _)
KeepSections(sections, currentLength, limit) ==
  IF sections # <<>> /\ currentLength + Len(Head(sections)) + 1 <= limit
  THEN Head(sections) \o <<NL>>
         \o KeepSections(Tail(sections),
                         currentLength + Len(Head(sections)) + 1, limit)
  ELSE <<>>

\* the summary before the last step
GeminiSummary(diff) ==
  LET lines == DiffLines(diff)
      fileLines == SelectSeq(lines, LAMBDA l : Includes(l, FileWord))
      statsLines ==
        SelectSeq(lines, LAMBDA l : Includes(l, AddedWord)
                                      /\ Includes(l, DeletedWord))
      importLines == SelectSeq(lines, LAMBDA l : IncludesAny(l, ImportWords))
      functionLines ==
        SelectSeq(lines, LAMBDA l : IsChangeLine(l)
                                      /\ IncludesAny(Trim(l), FunctionWords))
      basics ==
        Flatten([i \in 1..Min(Len(fileLines), 3) |->
                   fileLines[i] \o <<NL>>
                     \o (IF i <= Len(statsLines) THEN statsLines[i] \o <<NL>>
                         ELSE <<>>)])
      allModules == [i \in 1..Min(Len(importLines), 5) |->
                       ModuleOf(importLines[i])]
      modules == SelectSeq(allModules, LAMBDA mod : Len(mod) > 0)
      allFunctions == [i \in 1..Min(Len(functionLines), 8) |->
                         FunctionLabel(functionLines[i])]
      functions == SelectSeq(allFunctions, LAMBDA func : Len(func) > 3)
      addedLines == SelectSeq(lines, LAMBDA l : Includes(l, AddedWord))
      deletedLines == SelectSeq(lines, LAMBDA l : Includes(l, DeletedWord))
      totalAdded ==
        SumOf([i \in 1..Len(addedLines) |->
                 CountAfter(addedLines[i], AddedWord, <<"+">>)])
      totalDeleted ==
        SumOf([i \in 1..Len(deletedLines) |->
                 CountAfter(deletedLines[i], DeletedWord, <<"-">>)])
  IN basics
       \o (IF importLines # <<>>
           THEN <<NL>> \o <<"{xin}", "{zeng}", "{mo}", "{zu}", ":",
                   SP>> \o Join(modules, <<",", SP>>) \o <<NL>>
           ELSE <<>>)
       \o (IF functionLines # <<>>
           THEN <<NL>> \o <<"{zhu}", "{yao}", "{han}", "{shu}", "{bian}",
                   "{geng}", ":", SP>> \o Join(functions, <<",", SP>>)
                  \o <<NL>>
           ELSE <<>>)
       \o (IF totalAdded > 0 \/ totalDeleted > 0
           THEN <<NL>> \o <<"{bian}", "{geng}", "{gui}", "{mo}", ":", SP,
                   "+">> \o ToDecimal(totalAdded) \o <<"/", "-">>
                  \o ToDecimal(totalDeleted) \o <<SP, "{hang}">>
           ELSE <<>>)

\* AIService.truncateDiffForGemini: a diff summary again, without padding
\* unless the input is returned as it is
truncateDiffForGemini(diff) ==
  IF DiffLength(diff) <= GEMINI_SUMMARY_LENGTH THEN diff
  ELSE LET summary == GeminiSummary(diff)
           sections == SelectSeq(SplitOn(summary, NL),
                                 LAMBDA line : Trim(line) # <<>>)
       IN IF Len(summary) > GEMINI_SUMMARY_LENGTH
          THEN [head |-> KeepSections(sections, 0, GEMINI_SUMMARY_LENGTH - 50)
                           \o <<NL>> \o <<"(", "{zhi4}", "{neng}", "{zhai}",
                                   "{yao}", "{comma}", "{yuan}", "{shi3}", SP>>
                           \o ToDecimal(DiffLength(diff)) \o <<SP, "{zi}",
                                   "{fu2}", ")">>,
                pad |-> 0]
          ELSE [head |-> summary, pad |-> 0]

-----------------------------------------------------------------------------
(* AIService: reading a provider's reply                                   *)

\* values of a parsed JSON object; numbers are kept in hundredths
JUndefined == [t |-> "undefined"]
JString(s) == [t |-> "string", v |-> s]
JNumber(n) == [t |-> "number", n |-> n]

JTruthy(x) ==
  CASE x.t = "string" -> x.v # <<>>
    [] x.t = "number" -> x.n # 0
    [] OTHER -> FALSE

\* x || y
JOr(x, y) == IF JTruthy(x) THEN x ELSE y

DefaultMessage == <<"{geng}", "{xin}", "{dai}", "{ma}">>

\* the alternatives of the conventional commit pattern, in its order
CommitTypeWords ==
  <<<<"f", "e", "a", "t">>, <<"f", "i", "x">>, <<"r", "e", "f", "a", "c",
          "t", "o", "r">>, <<"d", "o", "c", "s">>, <<"s", "t", "y", "l",
          "e">>, <<"t", "e", "s", "t">>,
    <<"c", "h", "o", "r", "e">>, <<"p", "e", "r", "f">>, <<"c", "i">>, <<"b",
            "u", "i", "l", "d">>, <<"r", "e", "v", "e", "r", "t">>>>

\* the longest prefix of s without the character c
RECURSIVE RunUntil(_, _)
RunUntil(s, c) ==
  IF s # <<>> /\ Head(s) # c THEN <<Head(s)>> \o RunUntil(Tail(s), c)
  ELSE <<>>

\* ": (.+)" at the head of s: the group, <<>> without a match
MessageAt(s) ==
  IF StartsWith(s, <<":", SP>>) THEN RunUntil(Drop(s, 2), NL) ELSE <<>>

\* /^(feat|...|revert)(\([^)]+\))?: (.+)/ applied to the response
CommitMatch(response) ==
  LET after(word) == Drop(response, Len(word))
      inner(word) == RunUntil(Tail(after(word)), ")")
      scoped(word) ==
        /\ StartsWith(after(word), <<"(">>)
        /\ inner(word) # <<>>
        /\ Len(after(word)) >= Len(inner(word)) + 2
        /\ MessageAt(Drop(after(word), Len(inner(word)) + 2)) # <<>>
      plain(word) == MessageAt(after(word)) # <<>>
      hits == SelectSeq(CommitTypeWords,
                        LAMBDA word : StartsWith(response, word)
                                        /\ (scoped(word) \/ plain(word)))
  IN IF hits = <<>> THEN [matched |-> FALSE]
     ELSE IF scoped(hits[1])
     THEN [matched |-> TRUE, type |-> hits[1], scope |-> inner(hits[1]),
           message |->
             MessageAt(Drop(after(hits[1]), Len(inner(hits[1])) + 2))]
     ELSE [matched |-> TRUE, type |-> hits[1], scope |-> <<>>,
           message |-> MessageAt(after(hits[1]))]

StripChars == {DQ, "'", BT}

RECURSIVE StripLeading(_)
StripLeading(s) ==
  IF s # <<>> /\ Head(s) \in StripChars THEN StripLeading(Tail(s)) ELSE s

RECURSIVE StripTrailing(_)
StripTrailing(s) ==
  IF s # <<>> /\ s[Len(s)] \in StripChars
  THEN StripTrailing(SubSeq(s, 1, Len(s) - 1))
  ELSE s

\* message.replace(/^["'`]+|["'`]+$/g, "").trim()
StripQuotes(message) == Trim(StripTrailing(StripLeading(message)))

\* response.match(/\{[\s\S]*\}/): there is a { with a } after it
JsonMatch(response) ==
  \E i, j \in 1..Len(response) :
    i < j /\ response[i] = "{" /\ response[j] = "}"

\* AIService.parseAIResponse.  A reply carries its text and what JSON.parse
\* makes of the part from its first { to its last }: an object, a failure,
\* or nothing when there is no such part.
parseAIResponse(reply) ==
  IF JsonMatch(reply.raw) /\ reply.json.kind = "object"
  THEN [type |-> JOr(reply.json.type, JString(<<"c", "h", "o", "r", "e">>)),
        scope |-> JOr(reply.json.scope, JUndefined),
        message |-> JOr(reply.json.message, JString(DefaultMessage)),
        confidence |-> JOr(reply.json.confidence, JNumber(80))]
  ELSE LET commitMatch == CommitMatch(reply.raw)
           firstLine == SplitOn(reply.raw, NL)[1]
           message == IF commitMatch.matched THEN commitMatch.message
                      ELSE IF firstLine # <<>> THEN firstLine
                      ELSE DefaultMessage
       IN [type |-> JString(IF commitMatch.matched THEN commitMatch.type
                            ELSE <<"c", "h", "o", "r", "e">>),
           scope |-> JOr(JString(IF commitMatch.matched
                                 THEN commitMatch.scope ELSE <<>>),
                         JUndefined),
           message |-> JString(StripQuotes(message)),
           confidence |-> JNumber(70)]

\* replies of a provider
JsonReply ==
  [raw |-> <<"{", DQ, "t", "y", "p", "e", DQ, ":", DQ, "f", "e", "a", "t",
          DQ, ",", DQ, "s", "c", "o", "p", "e", DQ, ":", DQ, "a", "u", "t",
          "h", DQ, ",", DQ, "m", "e", "s", "s", "a", "g", "e", DQ, ":", DQ,
          "a", "d", "d", SP, "l", "o", "g", "i", "n", DQ, ",", DQ, "c", "o",
          "n", "f", "i", "d", "e", "n", "c", "e", DQ, ":", "0", ".", "9",
          "5", "}">>,
   json |-> [kind |-> "object", type |-> JString(<<"f", "e", "a", "t">>),
             scope |-> JString(<<"a", "u", "t", "h">>),
             message |-> JString(<<"a", "d", "d", SP, "l", "o", "g", "i",
                     "n">>),
             confidence |-> JNumber(95)]]

TextReply ==
  [raw |-> <<"f", "i", "x", "(", "u", "i", ")", ":", SP, DQ, "a", "l", "i",
          "g", "n", SP, "b", "u", "t", "t", "o", "n", DQ>>,
          json |-> [kind |-> "none"]]

ProseReply == [raw |-> <<"S", "o", "r", "r", "y", ",", SP, "{", "n", "o",
        "}">>, json |-> [kind |-> "invalid"]]

\* a commit line inside a code fence
FencedReply ==
  [raw |-> <<BT, BT, BT, NL, "f", "e", "a", "t", "(", "a", "u", "t", "h",
             ")", ":", SP, "a", "d", "d", SP, "l", "o", "g", "i", "n", NL,
             BT, BT, BT>>,
   json |-> [kind |-> "none"]]

Replies == {JsonReply, TextReply, ProseReply, FencedReply}

-----------------------------------------------------------------------------
(* Inputs of parseAIResponse                                               *)

\* a number of hundredths as a JSON text writes it
JsonNumberText(n) ==
  LET abs == IF n < 0 THEN 0 - n ELSE n
  IN (IF n < 0 THEN <<"-">> ELSE <<>>)
       \o ToDecimal(abs \div 100) \o <<".">>
       \o ToDecimal((abs % 100) \div 10) \o ToDecimal(abs % 10)

JsonValueText(x) ==
  IF x.t = "number" THEN JsonNumberText(x.n)
  ELSE <<DQ>> \o EscapeChars(x.v, {DQ, BS}) \o <<DQ>>

\* the JSON text of an object with the fields type, scope, message and
\* confidence, a field that is undefined left out
JsonObjectText(obj) ==
  LET names == <<<<"t", "y", "p", "e">>, <<"s", "c", "o", "p", "e">>, <<"m",
          "e", "s", "s", "a", "g", "e">>, <<"c", "o", "n", "f", "i", "d",
          "e", "n", "c", "e">>>>
      values == <<obj.type, obj.scope, obj.message, obj.confidence>>
      present == SelectSeq(<<1, 2, 3, 4>>,
                           LAMBDA i : values[i].t # "undefined")
      field(i) == <<DQ>> \o names[i] \o <<DQ, ":">> \o JsonValueText(values[i])
  IN <<"{">>
       \o Join([k \in 1..Len(present) |-> field(present[k])], <<",">>)
       \o <<"}">>

JsonTypes == {JUndefined, JString(<<>>), JString(<<"f", "e", "a", "t">>)}

JsonScopes == {JUndefined, JString(<<"a", "u", "t", "h">>)}

JsonMessages ==
  {JUndefined, JString(<<>>), JString(<<"a", "d", "d", SP, "l", "o", "g",
          "i", "n">>),
   JString(<<DQ, "a", "d", "d", SP, "l", "o", "g", "i", "n", DQ>>)}

JsonConfidences ==
  {JUndefined, JNumber(0), JNumber(95), JNumber(100), JNumber(150),
   JNumber(0 - 20), JString(<<"h", "i", "g", "h">>)}

JsonObjects ==
  [kind : {"object"}, type : JsonTypes, scope : JsonScopes,
   message : JsonMessages, confidence : JsonConfidences]

\* replies that hold one JSON object, alone or inside a sentence
JsonReplies ==
  {[raw |-> before \o JsonObjectText(obj) \o after, json |-> obj] :
     obj \in JsonObjects,
     before \in {<<>>}, after \in {<<>>}}
    \cup {[raw |-> <<"H", "e", "r", "e", SP, "i", "t", SP, "i", "s", ":",
            SP>> \o JsonObjectText(obj) \o <<SP, "T", "h", "a", "n", "k",
            "s", ".">>,
           json |-> obj] :
            obj \in {o \in JsonObjects : o.confidence.t = "number"
                                       /\ o.confidence.n = 95}}

TypeWords ==
  {CommitTypeWords[i] : i \in 1..Len(CommitTypeWords)}
    \cup {<<"f", "e", "a", "t", "u", "r", "e">>, <<"w", "i", "p">>}

ScopeTexts == {<<>>, <<"(", "u", "i", ")">>, <<"(", ")">>}

MessageTexts == {<<"a", "l", "i", "g", "n", SP, "b", "u", "t", "t", "o",
        "n">>, <<DQ, "a", "l", "i", "g", "n", SP, "b", "u", "t", "t", "o",
        "n", DQ>>, <<BT, "x", BT, SP>>}

LeadTexts == {<<>>, <<"S", "u", "r", "e", ":", NL>>, <<BT, BT, BT, NL>>,
        <<"C", "o", "m", "m", "i", "t", SP>>}

TailTexts == {<<>>, <<NL, "D", "o", "n", "e", ".">>}

\* replies without a JSON object: a commit line, with or without text
\* around it
TextReplies ==
  {[raw |-> lead \o word \o scope \o <<":", SP>> \o message \o tail,
    json |-> [kind |-> "none"]] :
     lead \in LeadTexts, word \in TypeWords, scope \in ScopeTexts,
     message \in MessageTexts, tail \in TailTexts}

\* replies that are neither
OtherReplies ==
  {[raw |-> <<"S", "o", "r", "r", "y", ",", SP, "{", "n", "o", "}">>,
          json |-> [kind |-> "invalid"]],
   [raw |-> <<"{", DQ, "t", "y", "p", "e", DQ, ":", DQ, "f", "i", "x", DQ,
           "}", SP, "o", "r", SP, "{", DQ, "t", "y", "p", "e", DQ, ":", DQ,
           "f", "e", "a", "t", DQ, "}">>,
    json |-> [kind |-> "invalid"]],
   [raw |-> <<"U", "p", "d", "a", "t", "e", SP, "t", "h", "e", SP, "l", "o",
           "g", "i", "n", SP, "f", "o", "r", "m">>,
           json |-> [kind |-> "none"]],
   [raw |-> <<DQ, "U", "p", "d", "a", "t", "e", SP, "t", "h", "e", SP, "l",
           "o", "g", "i", "n", SP, "f", "o", "r", "m", DQ, NL>>,
           json |-> [kind |-> "none"]],
   [raw |-> <<DQ, DQ>>, json |-> [kind |-> "none"]],
   [raw |-> <<SP, NL, "f", "i", "x", ":", SP, "x">>,
           json |-> [kind |-> "none"]],
   [raw |-> <<NL, "f", "i", "x", ":", SP, "x">>, json |-> [kind |-> "none"]]}

ParseInputs == JsonReplies \cup TextReplies \cup OtherReplies

ParseInit ==
  /\ parseInput \in ParseInputs
  /\ parseOut = NoParseOut
  /\ aiGenerateBtn = Enabled
  /\ posted = <<>>
  /\ toWebview = <<>>
  /\ settled = NoOutcome
  /\ panelGit = NoPanelGit
  /\ commitInput = NoCommitInput
  /\ commitOut = NoCommitOut
  /\ watcher = NoWatcher
  /\ refresh = NoRefresh
  /\ gitInput = NoGitInput
  /\ execLog = <<>>
  /\ ruleInput = NoRuleInput
  /\ ruleOut = NoRuleOut
  /\ settings = DefaultSettings
  /\ config = loadConfiguration(DefaultSettings, Undefined)
  /\ configNotice = "none"
  /\ gitService = TRUE
  /\ gen = IdleGen

\* AIService.parseAIResponse applied to the reply
ParseAIResponse ==
  /\ parseOut.op = "none"
  /\ parseOut' = [op |-> "parseAIResponse",
                  content |-> parseAIResponse(parseInput)]
  /\ UNCHANGED <<parseInput, gitVars, ruleVars, aiVars, webviewVars, shellVars>>

SpecParse == ParseInit /\ [][ParseAIResponse]_vars

-----------------------------------------------------------------------------
(* AIService.generateCommitContent, one step per await                     *)

\* the staged diff used throughout
StagedDiff ==
  <<"{dang}", "{an}", ":", SP, "s", "r", "c", "/", "a", "u", "t", "h", "/",
          "l", "o", "g", "i", "n", ".", "t", "s", NL, "{xin}", "{zeng}", ":",
          SP, "+", "1", "2", SP, "{hang}", ",", SP, "{shan}", "{chu}", ":",
          SP, "-", "3", SP, "{hang}", NL, "+", SP, "i", "m", "p", "o", "r",
          "t", SP, "x", SP, "f", "r", "o", "m", SP, DQ, "y", DQ, NL, "+", SP,
          "f", "u", "n", "c", "t", "i", "o", "n", SP, "f", "i", "x", "(",
          ")", SP, "{">>

\* the lengths isLargeDiffForProvider compares a summary's length with
LargeDiffLimits ==
  {GEMINI_MAX_DIFF_LENGTH, MAX_DIFF_LENGTH, (3 * MAX_DIFF_LENGTH) \div 2}

\* paddings that put the length at each limit and one character beyond it
Pads ==
  {0} \cup {limit - Len(StagedDiff) + over :
              limit \in LargeDiffLimits, over \in {0, 1}}

GatewayDiffs ==
  {NoDiff, [head |-> <<SP, NL>>, pad |-> 0]}
    \cup {[head |-> StagedDiff, pad |-> p] : p \in Pads}

\* the characters of a commit type
TypeText(type) ==
  CASE type = "feat" -> <<"f", "e", "a", "t">>
    [] type = "fix" -> <<"f", "i", "x">>
    [] type = "refactor" -> <<"r", "e", "f", "a", "c", "t", "o", "r">>
    [] type = "docs" -> <<"d", "o", "c", "s">>
    [] type = "style" -> <<"s", "t", "y", "l", "e">>
    [] type = "test" -> <<"t", "e", "s", "t">>
    [] type = "perf" -> <<"p", "e", "r", "f">>
    [] type = "ci" -> <<"c", "i">>
    [] type = "build" -> <<"b", "u", "i", "l", "d">>
    [] type = "revert" -> <<"r", "e", "v", "e", "r", "t">>
    [] OTHER -> <<"c", "h", "o", "r", "e">>

\* the content the rule engine returns, its fields as the values the
\* callers of generateCommitContent read: three strings and a number
RuleContent(content) ==
  [type |-> JString(TypeText(content.type)),
   scope |-> JString(content.scope),
   message |-> JString(content.message),
   confidence |-> JNumber(content.confidence)]

\* generateWithEnhancedRules on each of these summaries, evaluated once
RuleBasedResult ==
  [diff \in GatewayDiffs |->
     RuleContent(generateWithEnhancedRules(DiffText(diff)))]

\* truncateDiffForGemini on each of these summaries, evaluated once
TruncatedForGemini ==
  [diff \in GatewayDiffs |-> truncateDiffForGemini(diff)]

\* The outcome of one synchronous stretch of generateCommitContent.  The
\* parameter rules is what generateWithEnhancedRules(diffSummary) returns,
\* a function of the diff summary alone, computed when the call is entered.
Await(provider, phase, request, notes, kept) ==
  [pc |-> phase, provider |-> provider, kept |-> kept, result |-> NoResult,
   caught |-> FALSE, error |-> <<>>, notes |-> notes,
   requests |-> <<request>>]

Returned(via, rules, notes) ==
  [pc |-> "done", provider |-> "none", kept |-> NoDiff,
   result |-> [kind |-> "content", via |-> via, content |-> rules],
   caught |-> FALSE, error |-> <<>>, notes |-> notes, requests |-> <<>>]

Parsed(reply) ==
  [pc |-> "done", provider |-> "none", kept |-> NoDiff,
   result |-> [kind |-> "content", via |-> "provider",
               content |-> parseAIResponse(reply)],
   caught |-> FALSE, error |-> <<>>, notes |-> <<>>, requests |-> <<>>]

Raised(message) ==
  [pc |-> "done", provider |-> "none", kept |-> NoDiff,
   result |-> [kind |-> "raised", message |-> message],
   caught |-> FALSE, error |-> <<>>, notes |-> <<>>, requests |-> <<>>]

\* the catch clause with the error passed on to the caller
Caught_rethrow(cfg, rules, message) ==
  [pc |-> "done", provider |-> "none", kept |-> NoDiff,
   result |-> [kind |-> "raised", message |-> message],
   caught |-> TRUE, error |-> message,
   notes |-> showProviderError(cfg, message), requests |-> <<>>]

\* the catch clause of generateCommitContent: the advisory, then the rules
Caught(cfg, rules, message) ==
  [pc |-> "done", provider |-> "none", kept |-> NoDiff,
   result |-> [kind |-> "content", via |-> "catch", content |-> rules],
   caught |-> TRUE, error |-> message,
   notes |-> showProviderError(cfg, message), requests |-> <<>>]

\* a request: where it goes and the diff text placed in it, none in a GET
Fetch(to, text) == [to |-> to, text |-> text]

\* what a stretch of a provider's method ends with: a request, a return
\* of the rule-based result, a parsed reply, or a thrown error; kept is the
\* diff text the method holds in a local variable while the request is out
Request(provider, phase, request, notes, kept) ==
  [kind |-> "await", provider |-> provider, phase |-> phase,
   request |-> request, notes |-> notes, kept |-> kept]

Fallback(via, notes) == [kind |-> "rules", via |-> via, notes |-> notes]

Answer(reply) == [kind |-> "reply", reply |-> reply]

Throw(message) == [kind |-> "throw", message |-> message]

\* the try block of generateCommitContent around a provider's method
Try(cfg, rules, end) ==
  CASE end.kind = "await" ->
         Await(end.provider, end.phase, end.request, end.notes, end.kept)
    [] end.kind = "rules" -> Returned(end.via, rules, end.notes)
    [] end.kind = "reply" -> Parsed(end.reply)
    [] end.kind = "throw" -> Caught(cfg, rules, end.message)

\* generateWithGemini once processedDiff holds the summary of a large diff
SummarisedForGemini(processedDiff) ==
  IF 2 * DiffLength(processedDiff) > 3 * GEMINI_SUMMARY_LENGTH
  THEN Fallback("summary",
                <<Note("info", "changes too complex, rule engine used")>>)
  ELSE Request("gemini", "precheck", Fetch("GET gemini/models", NoDiff),
               <<Note("info", "changes are large, analysing key changes")>>,
               processedDiff)

\* generateWithGemini with the summary made beyond the limit of OpenAI
generateWithGemini_otherLimit(cfg, diff) ==
  IF ~Truthy(cfg.apiKey) THEN Throw(ErrGeminiKey)
  ELSE IF DiffLength(diff) <= MAX_DIFF_LENGTH
  THEN Request("gemini", "precheck", Fetch("GET gemini/models", NoDiff), <<>>,
               diff)
  ELSE SummarisedForGemini(TruncatedForGemini[diff])

\* generateWithGemini up to its first request
generateWithGemini(cfg, diff) ==
  IF ~Truthy(cfg.apiKey) THEN Throw(ErrGeminiKey)
  ELSE IF DiffLength(diff) <= GEMINI_MAX_DIFF_LENGTH
  THEN Request("gemini", "precheck", Fetch("GET gemini/models", NoDiff), <<>>,
               diff)
  ELSE SummarisedForGemini(TruncatedForGemini[diff])

\* generateWithLocalAI up to its first request
generateWithLocalAI(cfg) ==
  IF ~Truthy(cfg.endpoint) THEN Throw(ErrLocalEndpoint)
  ELSE Request("local", "precheck", Fetch("GET local/api/tags", NoDiff), <<>>,
               NoDiff)

\* generateWithOpenAI up to its request
generateWithOpenAI(cfg, diff) ==
  IF ~Truthy(cfg.apiKey) THEN Throw(ErrOpenAIKey)
  ELSE Request("openai", "generate",
               Fetch("POST openai/chat/completions", diff), <<>>, NoDiff)

\* generateWithAnthropic up to its request
generateWithAnthropic(cfg, diff) ==
  IF ~Truthy(cfg.apiKey) THEN Throw(ErrAnthropicKey)
  ELSE Request("anthropic", "generate",
               Fetch("POST anthropic/messages", diff), <<>>, NoDiff)

\* the switch on the provider
Dispatch(cfg, diff) ==
  CASE cfg.provider = "openai" -> generateWithOpenAI(cfg, diff)
    [] cfg.provider = "anthropic" -> generateWithAnthropic(cfg, diff)
    [] cfg.provider = "gemini" -> generateWithGemini(cfg, diff)
    [] cfg.provider = "local" -> generateWithLocalAI(cfg)
    [] OTHER -> Fallback("rules", <<>>)

\* generateCommitContent without the check for a blank summary
generateCommitContent_noBlankCheck(cfg, diff, rules) ==
  IF isLargeDiffForProvider(cfg, diff) /\ cfg.provider # "gemini"
  THEN Returned("large", rules, <<>>)
  ELSE Try(cfg, rules, Dispatch(cfg, diff))

\* generateCommitContent up to its first await
generateCommitContent(cfg, diff, rules) ==
  IF IsBlank(diff) THEN Raised(NoStagedFiles)
  ELSE IF isLargeDiffForProvider(cfg, diff) /\ cfg.provider # "gemini"
  THEN Returned("large", rules, <<>>)
  ELSE Try(cfg, rules, Dispatch(cfg, diff))

\* what a request can come back with
FetchOutcomes ==
  [kind : {"fetch failed", "timeout", "bad body", "empty"}]
    \cup [kind : {"status"}, statusText : StatusTexts]
    \cup [kind : {"reply"}, reply : Replies]

PrecheckOutcomes ==
  [kind : {"fetch failed", "timeout", "ok"}]
    \cup [kind : {"status"}, status : {403}, errorText : ErrorBodies]

GeminiOutcomes ==
  [kind : {"fetch failed", "timeout", "bad body", "empty", "no candidates",
           "MAX_TOKENS", "SAFETY", "RECITATION"}]
    \cup [kind : {"status"}, status : {429, 500}, statusText : StatusTexts,
          errorText : ErrorBodies]
    \cup [kind : {"reply"}, reply : Replies]

IsRejection(outcome) ==
  outcome.kind \in {"fetch failed", "timeout", "bad body"}

\* the message of the error a failed request is rejected with
RejectionOf(outcome) ==
  CASE outcome.kind = "fetch failed" -> FetchFailed
    [] outcome.kind = "timeout" -> TimedOut
    [] outcome.kind = "bad body" -> BadBody

\* String(error) of a rejected request
RejectionText(outcome) ==
  CASE outcome.kind = "fetch failed" -> <<"T", "y", "p", "e", "E", "r", "r",
          "o", "r", ":", SP>> \o FetchFailed
    [] outcome.kind = "timeout" -> <<"T", "i", "m", "e", "o", "u", "t", "E",
            "r", "r", "o", "r", ":", SP>> \o TimedOut

\* generateWithOpenAI after its request
OpenAIResponse(outcome) ==
  IF IsRejection(outcome) THEN Throw(RejectionOf(outcome))
  ELSE IF outcome.kind = "status"
  THEN Throw(ErrOpenAIStatus \o outcome.statusText)
  ELSE IF outcome.kind = "empty" THEN Throw(ErrOpenAIEmpty)
  ELSE Answer(outcome.reply)

\* generateWithAnthropic after its request
AnthropicResponse(outcome) ==
  IF IsRejection(outcome) THEN Throw(RejectionOf(outcome))
  ELSE IF outcome.kind = "status"
  THEN Throw(ErrAnthropicStatus \o outcome.statusText)
  ELSE IF outcome.kind = "empty" THEN Throw(ErrAnthropicEmpty)
  ELSE Answer(outcome.reply)

\* generateWithGemini after the request that tests the key; the prompt is
\* built around processedDiff
GeminiPrecheckResponse(processedDiff, outcome) ==
  IF outcome.kind = "ok"
  THEN Request("gemini", "generate",
               Fetch("POST gemini/generateContent", processedDiff), <<>>,
               NoDiff)
  ELSE Throw(ErrGeminiConnect
               \o (IF outcome.kind = "status"
                   THEN ErrGeminiValidation \o ToDecimal(outcome.status)
                          \o <<SP, "-", SP>> \o outcome.errorText
                   ELSE RejectionText(outcome))
               \o ErrGeminiConnectTail)

\* generateWithGemini after the generation request
\* generateWithGemini raising on a reply cut at the token limit
GeminiResponse_tokensThrow(outcome) ==
  IF IsRejection(outcome) THEN Throw(RejectionOf(outcome))
  ELSE IF outcome.kind = "status" /\ outcome.status = 429
  THEN Fallback("quota",
                <<Note("warning", "Gemini quota used up, rule engine used")>>)
  ELSE IF outcome.kind = "status"
  THEN Throw(ErrGeminiStatus \o ToDecimal(outcome.status) \o <<SP>>
               \o outcome.statusText \o <<SP, "-", SP>> \o outcome.errorText)
  ELSE IF outcome.kind = "no candidates" THEN Throw(ErrGeminiNoCandidates)
  ELSE IF outcome.kind = "MAX_TOKENS" THEN Throw(ErrGeminiEmpty)
  ELSE IF outcome.kind = "SAFETY" THEN Throw(ErrGeminiSafety)
  ELSE IF outcome.kind = "RECITATION" THEN Throw(ErrGeminiRecitation)
  ELSE IF outcome.kind = "empty" THEN Throw(ErrGeminiEmpty \o <<"{", "}">>)
  ELSE Answer(outcome.reply)

GeminiResponse(outcome) ==
  IF IsRejection(outcome) THEN Throw(RejectionOf(outcome))
  ELSE IF outcome.kind = "status" /\ outcome.status = 429
  THEN Fallback("quota",
                <<Note("warning", "Gemini quota used up, rule engine used")>>)
  ELSE IF outcome.kind = "status"
  THEN Throw(ErrGeminiStatus \o ToDecimal(outcome.status) \o <<SP>>
               \o outcome.statusText \o <<SP, "-", SP>> \o outcome.errorText)
  ELSE IF outcome.kind = "no candidates" THEN Throw(ErrGeminiNoCandidates)
  ELSE IF outcome.kind = "MAX_TOKENS" THEN Fallback("truncated", <<>>)
  ELSE IF outcome.kind = "SAFETY" THEN Throw(ErrGeminiSafety)
  ELSE IF outcome.kind = "RECITATION" THEN Throw(ErrGeminiRecitation)
  ELSE IF outcome.kind = "empty" THEN Throw(ErrGeminiEmpty \o <<"{", "}">>)
  ELSE Answer(outcome.reply)

\* generateWithLocalAI after the request that tests the connection; the
\* generation request goes to the endpoint configured by then
LocalPrecheckResponse(cfg, diff, outcome) ==
  IF outcome.kind # "ok"
  THEN Throw(ErrLocalConnect \o EndpointText(cfg.endpoint)
               \o ErrLocalConnectTail)
  ELSE IF ~Truthy(cfg.endpoint) THEN Throw(<<"F", "a", "i", "l", "e", "d",
          SP, "t", "o", SP, "p", "a", "r", "s", "e", SP, "U", "R", "L", SP,
          "f", "r", "o", "m", SP>>)
  ELSE Request("local", "generate", Fetch("POST local/api/generate", diff),
               <<>>, NoDiff)

\* generateWithLocalAI after the generation request
LocalResponse(outcome) ==
  IF IsRejection(outcome) THEN Throw(RejectionOf(outcome))
  ELSE IF outcome.kind = "status"
  THEN Throw(ErrLocalStatus \o outcome.statusText)
  ELSE IF outcome.kind = "empty" THEN Throw(ErrLocalEmpty)
  ELSE Answer(outcome.reply)

\* the pending request of a generation settles: the rest of the provider's
\* method, inside the try block
ProviderResponse(cfg, diff, kept, provider, phase, outcome) ==
  CASE provider = "openai" -> OpenAIResponse(outcome)
    [] provider = "anthropic" -> AnthropicResponse(outcome)
    [] provider = "gemini" /\ phase = "precheck" ->
         GeminiPrecheckResponse(kept, outcome)
    [] provider = "gemini" /\ phase = "generate" -> GeminiResponse(outcome)
    [] provider = "local" /\ phase = "precheck" ->
         LocalPrecheckResponse(cfg, diff, outcome)
    [] provider = "local" /\ phase = "generate" -> LocalResponse(outcome)

-----------------------------------------------------------------------------
(* CommitHelperProvider: the panel's handlers                              *)

\* the one element of a set of one; a value is worked out once where it is
\* bound to an element of a set
Only(S) == CHOOSE x \in S : TRUE

\* the generation record after one more stretch of generateCommitContent
Advance(g, step) ==
  [g EXCEPT !.pc = step.pc, !.provider = step.provider,
            !.kept = step.kept,
            !.result = step.result, !.caught = step.caught,
            !.error = step.error, !.notes = @ \o step.notes,
            !.requests = @ \o step.requests]

\* a failure that posts nothing to the webview
sendAIGenerationFailed_silent(g) == g

sendAIGenerationFailed(g) ==
  [g EXCEPT !.outbox = Append(@, [type |-> "aiGenerationFailed"])]

\* generateAIContent once generateCommitContent has settled
PanelSettles(g) ==
  IF g.caller # "panel" \/ g.pc # "done" THEN g
  ELSE IF g.result.kind = "content"
  THEN [g EXCEPT !.outbox = Append(@, [type |-> "aiContentGenerated",
                                       content |-> g.result.content]),
                 !.notes = Append(@, Note("info", "AI content generated"))]
  ELSE sendAIGenerationFailed(
         [g EXCEPT !.notes = Append(@, Note("error", "AI generation failed"))])

\* stdout.trim() of a diff summary whose head is not blank when padded
TrimDiff(diff) ==
  IF diff.pad = 0 THEN [head |-> Trim(diff.head), pad |-> 0]
  ELSE [head |-> TrimStart(diff.head), pad |-> diff.pad]

\* what git diff --cached prints
GitOutputs ==
  {NoDiff, [head |-> <<SP, NL>>, pad |-> 0],
   [head |-> StagedDiff \o <<NL>>, pad |-> 0]}
    \cup {[head |-> StagedDiff, pad |-> p] : p \in Pads \ {0}}

\* settings as the settings store may hold them when the extension starts
InitialSettings ==
  [provider : Providers \cup {Undefined}, apiKey : {"", ApiKey},
   model : {Undefined}, endpoint : {Undefined}]

\* the configurations the settings form of the panel can send
ConfigMessages ==
  [provider : Providers \cup {""}, apiKey : {"", ApiKey}, model : {""},
   endpoint : {"", LocalEndpoint}]

\* the fields updateAIConfiguration writes to the settings store, in order
SettingWrites(newConfig) ==
  (IF Truthy(newConfig.provider) THEN <<"provider">> ELSE <<>>)
    \o <<"apiKey", "model", "endpoint">>

Init ==
  /\ settings \in InitialSettings
  /\ config \in {loadConfiguration(settings, envKey) :
                   envKey \in {Undefined, ApiKey}}
  /\ configNotice = "none"
  /\ gitService \in BOOLEAN
  /\ gen = IdleGen
  /\ parseInput = NoReply
  /\ parseOut = NoParseOut
  /\ aiGenerateBtn = Enabled
  /\ posted = <<>>
  /\ toWebview = <<>>
  /\ settled = NoOutcome
  /\ panelGit = NoPanelGit
  /\ commitInput = NoCommitInput
  /\ commitOut = NoCommitOut
  /\ watcher = NoWatcher
  /\ refresh = NoRefresh
  /\ gitInput = NoGitInput
  /\ execLog = <<>>
  /\ ruleInput = NoRuleInput
  /\ ruleOut = NoRuleOut

\* CommitHelperProvider.updateAIConfiguration handling the message
\* newConfig; the settings write numbered failAt is rejected, none when
\* failAt is 0
UpdateAIConfiguration(newConfig, failAt) ==
  LET writes == SettingWrites(newConfig)
      done == IF failAt = 0 THEN Len(writes) ELSE failAt - 1
      written == {writes[i] : i \in 1..done}
  IN /\ failAt <= Len(writes)
     /\ settings' = [f \in DOMAIN settings |->
                       IF f \in written THEN newConfig[f] ELSE settings[f]]
     /\ config' = IF failAt = 0 THEN updateConfiguration(config, newConfig)
                  ELSE config
     /\ configNotice' = IF failAt = 0 THEN "none"
                        ELSE "error: AI settings update failed"
     /\ UNCHANGED <<gitService, gen, gitVars, ruleVars, parseVars,
             webviewVars, shellVars>>

\* the settings form is saved and every write succeeds
SaveAIConfiguration ==
  \E newConfig \in ConfigMessages : UpdateAIConfiguration(newConfig, 0)

\* the settings form is saved and a write may be rejected
SaveOrFail ==
  \E newConfig \in ConfigMessages :
    \E failAt \in 0..4 : UpdateAIConfiguration(newConfig, failAt)

\* generateCommitContent is entered with the diff summary of g
Enter(g) ==
  Only({PanelSettles(moved) :
          moved \in {Advance(g, step) :
                       step \in {generateCommitContent(config, g.diff,
                                                       g.rules)}}})

\* a caller of the public method generateCommitContent
CallGenerateCommitContent ==
  /\ gen.pc \in {"idle", "done"}
  /\ \E diff \in GatewayDiffs :
       gen' = Enter([IdleGen EXCEPT !.caller = "api", !.called = TRUE,
                                    !.diff = diff,
                                    !.rules = RuleBasedResult[diff]])
  /\ UNCHANGED <<config, settings, configNotice, gitService, gitVars,
          ruleVars, parseVars, webviewVars, shellVars>>

\* the messages g posted to the webview after the first n
PostedAfter(g, n) == SubSeq(g.outbox, n + 1, Len(g.outbox))

\* the click handler without the line that disables the button
ClickAIGenerate_noDisable ==
  /\ ~aiGenerateBtn.disabled
  /\ aiGenerateBtn' = aiGenerateBtn
  /\ posted' = Append(posted, [type |-> "generateAIContent"])
  /\ UNCHANGED <<config, settings, configNotice, gitService, gen, toWebview,
          settled, gitVars, ruleVars, parseVars, shellVars>>

\* the user clicks the AI button of the webview
ClickAIGenerate ==
  /\ ~aiGenerateBtn.disabled
  /\ aiGenerateBtn' = Disabled
  /\ posted' = Append(posted, [type |-> "generateAIContent"])
  /\ UNCHANGED <<config, settings, configNotice, gitService, gen, toWebview,
          settled, gitVars, ruleVars, parseVars, shellVars>>

\* the message listener of the webview takes the next message of the panel
WebviewReceives ==
  /\ toWebview # <<>>
  /\ aiGenerateBtn' =
       IF Head(toWebview).type \in {"aiContentGenerated", "aiGenerationFailed"}
       THEN Enabled ELSE aiGenerateBtn
  /\ toWebview' = Tail(toWebview)
  /\ UNCHANGED <<config, settings, configNotice, gitService, gen, posted,
          settled, gitVars, ruleVars, parseVars, shellVars>>

\* CommitHelperProvider.refreshFileList, called for the messages refresh
\* and ready and when the view becomes visible; getFileStatus never raises
RefreshFileList ==
  /\ gitService
  /\ Len(toWebview) < MaxInbox
  /\ toWebview' = Append(toWebview, [type |-> "updateFiles"])
  /\ UNCHANGED <<config, settings, configNotice, gitService, gen, posted,
          aiGenerateBtn, settled, gitVars, ruleVars, parseVars, shellVars>>

\* CommitHelperProvider.generateAIContent up to its first provider request
StartAIContent ==
  /\ gen.pc \in {"idle", "done"}
  /\ LET start == [IdleGen EXCEPT !.caller = "panel"]
         failed(text) ==
           sendAIGenerationFailed(
             [start EXCEPT !.pc = "done",
                           !.notes = <<Note("error", text)>>])
     IN IF ~gitService THEN gen' = failed("no workspace folder")
        ELSE \E hasStaged \in BOOLEAN :
               IF ~hasStaged THEN gen' = failed("no staged files")
               ELSE \E stdout \in GitOutputs :
                      IF DiffLength(TrimDiff(stdout)) = 0
                      THEN gen' = [failed("no staged files")
                                     EXCEPT !.hasStaged = TRUE,
                                            !.stdout = stdout]
                      ELSE gen' =
                             Enter([start EXCEPT
                                      !.hasStaged = TRUE,
                                      !.stdout = stdout,
                                      !.called = TRUE,
                                      !.diff = TrimDiff(stdout),
                                      !.rules =
                                        RuleBasedResult[TrimDiff(stdout)]])

\* generateAIContent is called; the webview is left out, a generateAIContent
\* message may come at any time
GenerateAIContent ==
  /\ StartAIContent
  /\ UNCHANGED <<config, settings, configNotice, gitService, gitVars,
          ruleVars, parseVars, webviewVars, shellVars>>

\* handleWebviewMessage takes the generateAIContent message the webview
\* posted and calls generateAIContent
HandleGenerateAIContent ==
  /\ posted # <<>>
  /\ posted' = Tail(posted)
  /\ StartAIContent
  /\ toWebview' = toWebview \o PostedAfter(gen', 0)
  /\ UNCHANGED <<config, settings, configNotice, gitService, gitVars,
          ruleVars, parseVars, aiGenerateBtn, settled, shellVars>>

\* the generation after its pending request has come back with outcome
Resume(outcome) ==
  Only({PanelSettles(moved) :
          moved \in {Advance(gen, Try(config, gen.rules, end)) :
                       end \in {ProviderResponse(config, gen.diff, gen.kept,
                                                 gen.provider, gen.pc,
                                                 outcome)}}})

\* the OpenAI request settles
OpenAIResponds ==
  /\ gen.pc = "generate" /\ gen.provider = "openai"
  /\ \E outcome \in FetchOutcomes : gen' = Resume(outcome)
  /\ UNCHANGED <<config, settings, configNotice, gitService, gitVars,
          ruleVars, parseVars, webviewVars, shellVars>>

\* the Anthropic request settles
AnthropicResponds ==
  /\ gen.pc = "generate" /\ gen.provider = "anthropic"
  /\ \E outcome \in FetchOutcomes : gen' = Resume(outcome)
  /\ UNCHANGED <<config, settings, configNotice, gitService, gitVars,
          ruleVars, parseVars, webviewVars, shellVars>>

\* the request that tests the Gemini key settles
GeminiPrecheckResponds ==
  /\ gen.pc = "precheck" /\ gen.provider = "gemini"
  /\ \E outcome \in PrecheckOutcomes : gen' = Resume(outcome)
  /\ UNCHANGED <<config, settings, configNotice, gitService, gitVars,
          ruleVars, parseVars, webviewVars, shellVars>>

\* the Gemini generation request settles
GeminiResponds ==
  /\ gen.pc = "generate" /\ gen.provider = "gemini"
  /\ \E outcome \in GeminiOutcomes : gen' = Resume(outcome)
  /\ UNCHANGED <<config, settings, configNotice, gitService, gitVars,
          ruleVars, parseVars, webviewVars, shellVars>>

\* the request that tests the local endpoint settles
LocalPrecheckResponds ==
  /\ gen.pc = "precheck" /\ gen.provider = "local"
  /\ \E outcome \in PrecheckOutcomes : gen' = Resume(outcome)
  /\ UNCHANGED <<config, settings, configNotice, gitService, gitVars,
          ruleVars, parseVars, webviewVars, shellVars>>

\* the local generation request settles
LocalResponds ==
  /\ gen.pc = "generate" /\ gen.provider = "local"
  /\ \E outcome \in FetchOutcomes : gen' = Resume(outcome)
  /\ UNCHANGED <<config, settings, configNotice, gitService, gitVars,
          ruleVars, parseVars, webviewVars, shellVars>>

\* the outcomes the pending request of g can have
OutcomesFor(g) ==
  IF g.pc = "precheck" THEN PrecheckOutcomes
  ELSE IF g.provider = "gemini" THEN GeminiOutcomes
  ELSE FetchOutcomes

\* the pending request of the generation the webview asked for settles, and
\* generateAIContent runs to its end
ProviderResponds ==
  /\ gen.pc \in {"precheck", "generate"}
  /\ \E outcome \in OutcomesFor(gen) :
       /\ settled' = outcome
       /\ gen' = Resume(outcome)
  /\ toWebview' = toWebview \o PostedAfter(gen', Len(gen.outbox))
  /\ UNCHANGED <<config, settings, configNotice, gitService, gitVars,
          ruleVars, parseVars, aiGenerateBtn, posted, shellVars>>

Next ==
  \/ SaveAIConfiguration
  \/ CallGenerateCommitContent
  \/ GenerateAIContent
  \/ OpenAIResponds
  \/ AnthropicResponds
  \/ GeminiPrecheckResponds
  \/ GeminiResponds
  \/ LocalPrecheckResponds
  \/ LocalResponds

Spec == Init /\ [][Next]_vars

SpecConfig == Init /\ [][SaveOrFail]_vars

\* the panel and its webview; a request to a provider settles, by an answer
\* or by the timeout of its AbortSignal, and a posted message is delivered
PanelNext ==
  \/ ClickAIGenerate
  \/ WebviewReceives
  \/ RefreshFileList
  \/ HandleGenerateAIContent
  \/ ProviderResponds

\* what each step of the three fair actions changes
PanelProgress == <<Len(posted), gen.pc, Len(toWebview)>>

\* handleWebviewMessage runs when a message is posted, a request to a
\* provider settles by its answer or by the timeout of its AbortSignal, and
\* the webview runs its listener when a message arrives
PanelFairness ==
  /\ WF_PanelProgress(HandleGenerateAIContent)
  /\ WF_PanelProgress(ProviderResponds)
  /\ WF_PanelProgress(WebviewReceives)

SpecPanel == Init /\ [][PanelNext]_vars /\ PanelFairness

-----------------------------------------------------------------------------
(* GitService.formatCommitMessage and CommitHelperProvider.handleCommit    *)

\* GitService.formatCommitMessage adding the parentheses whatever the scope
formatCommitMessage_alwaysParens(commitType, scope, message) ==
  LET scopeStr == <<"(">> \o scope \o <<")">>
  IN commitType \o scopeStr \o <<":", SP>> \o message

\* GitService.formatCommitMessage
formatCommitMessage(commitType, scope, message) ==
  LET scopeStr == IF scope # <<>> THEN <<"(">> \o scope \o <<")">> ELSE <<>>
  IN commitType \o scopeStr \o <<":", SP>> \o message

validateCommitInput(commitType, message) ==
  commitType # <<>> /\ Trim(message) # <<>>

\* what a handler of the panel has done so far: the commands it had
\* GitService run to change the repository, which of them failed, what the
\* user was shown, and the messages posted to the webview
CommitRun(ran, failed, notes, posts) ==
  [ran |-> ran, failed |-> failed, notes |-> notes, posts |-> posts]

NothingRun == CommitRun(<<>>, <<>>, <<>>, <<>>)

Shown(run, note) == [run EXCEPT !.notes = Append(@, note)]

UpdateFiles == [type |-> "updateFiles"]
ClearInputs == [type |-> "clearInputs"]

\* CommitHelperProvider.stageAllFiles as handleCommit reaches it: it catches
\* the failure of git add . itself
stageAllFiles(run, addFails) ==
  LET after == [run EXCEPT
                  !.ran = Append(@, [cmd |-> "git add .", arg |-> <<>>]),
                  !.failed = Append(@, addFails)]
  IN IF addFails THEN Shown(after, Note("error", "stage failed"))
     ELSE Shown([after EXCEPT !.posts = Append(@, UpdateFiles)],
                Note("info", "all files staged"))

\* CommitHelperProvider.ensureStagedChanges: [ok, run]
ensureStagedChanges(run, hasStaged, action, addFails) ==
  IF hasStaged THEN [ok |-> TRUE, run |-> run]
  ELSE IF action = "yes"
  THEN [ok |-> TRUE, run |-> stageAllFiles(run, addFails)]
  ELSE [ok |-> FALSE, run |-> run]

\* the end of handleCommit with the inputs cleared before the refresh
CommitSucceeded_clearFirst(run, commitMessage) ==
  Shown([run EXCEPT !.posts = @ \o <<ClearInputs, UpdateFiles>>],
        Note("info", "commit done"))

\* the end of handleCommit after git commit: refreshFileList, clearInputs
\* and the notice of success
CommitSucceeded(run, commitMessage) ==
  Shown([run EXCEPT !.posts = @ \o <<UpdateFiles, ClearInputs>>],
        Note("info", "commit done"))

\* CommitHelperProvider.handleCommit; env is what git and the user answer
handleCommit(hasService, in, env) ==
  IF ~hasService THEN Shown(NothingRun, Note("error", "no workspace folder"))
  ELSE IF ~validateCommitInput(in.commitType, in.message)
  THEN Shown(NothingRun, Note("error", "choose a type and enter a message"))
  ELSE IF ~env.isRepo
  THEN Shown(NothingRun, Note("error", "not in a git repository"))
  ELSE LET staged == ensureStagedChanges(NothingRun, env.hasStaged,
                                         env.action, env.addFails)
           commitMessage ==
             formatCommitMessage(in.commitType, in.scope, in.message)
           committed ==
             [staged.run EXCEPT
                !.ran = Append(@, [cmd |-> "git commit -m",
                                   arg |-> sanitizeCommitMessage(commitMessage)]),
                !.failed = Append(@, env.commitFails)]
       IN IF ~staged.ok THEN staged.run
          ELSE IF env.commitFails
          THEN Shown(committed, Note("error", "commit failed"))
          ELSE CommitSucceeded(committed, commitMessage)

\* the commit form of the webview and what git and the user may answer
CommitTypes == {<<>>, <<"f", "e", "a", "t">>, <<"f", "i", "x">>}

CommitScopes == {<<>>, <<"a", "u", "t", "h">>}

CommitMessages ==
  {<<>>, <<SP, SP>>,
   <<"{xin}", "{zeng}", "{deng}", "{ru}", "{gong}", "{neng}">>,
   <<"{xiu}", "{fu}">>}

CommitInputs ==
  [commitType : CommitTypes, scope : CommitScopes, message : CommitMessages]

CommitEnvs ==
  [isRepo : BOOLEAN, hasStaged : BOOLEAN, action : {"yes", "no", "dismissed"},
   addFails : BOOLEAN, commitFails : BOOLEAN]

CommitInit ==
  /\ commitInput \in CommitInputs
  /\ commitOut = NoCommitOut
  /\ gitService \in BOOLEAN
  /\ watcher = NoWatcher
  /\ refresh = NoRefresh
  /\ gitInput = NoGitInput
  /\ execLog = <<>>
  /\ panelGit = NoPanelGit
  /\ ruleInput = NoRuleInput
  /\ ruleOut = NoRuleOut
  /\ settings = DefaultSettings
  /\ config = loadConfiguration(DefaultSettings, Undefined)
  /\ configNotice = "none"
  /\ gen = IdleGen
  /\ parseInput = NoReply
  /\ parseOut = NoParseOut
  /\ aiGenerateBtn = Enabled
  /\ posted = <<>>
  /\ toWebview = <<>>
  /\ settled = NoOutcome

\* GitService.formatCommitMessage applied to what the form holds
FormatCommitMessage ==
  /\ commitOut.op = "none"
  /\ commitOut' = [op |-> "formatCommitMessage",
                   text |-> formatCommitMessage(commitInput.commitType,
                                                commitInput.scope,
                                                commitInput.message)]
  /\ UNCHANGED <<commitInput, watcher, refresh, gitVars, ruleVars, aiVars,
          parseVars, webviewVars>>

\* the webview posts commit and the panel handles it; the webview receives
\* what the handler posted, and clearInputs empties the form
HandleCommit ==
  /\ commitOut.op = "none"
  /\ \E env \in CommitEnvs :
       LET run == handleCommit(gitService, commitInput, env)
           cleared == \E k \in 1..Len(run.posts) : run.posts[k] = ClearInputs
       IN /\ commitOut' = [op |-> "handleCommit", input |-> commitInput,
                           env |-> env, run |-> run]
          /\ commitInput' = IF cleared THEN NoCommitInput ELSE commitInput
  /\ UNCHANGED <<watcher, refresh, gitVars, ruleVars, aiVars, parseVars,
          webviewVars>>

CommitNext == FormatCommitMessage \/ HandleCommit

SpecCommit == CommitInit /\ [][CommitNext]_vars

-----------------------------------------------------------------------------
(* FileWatcher                                                             *)

\* the debounce delay in milliseconds, and the step of the model's clock
DEBOUNCE_DELAY == 300
TickMs == 50
DebounceTicks == DEBOUNCE_DELAY \div TickMs

\* bounds: workspace-folder listeners alive at once, timers pending at once,
\* callbacks counted since the last watcher event
MaxListeners == 8
MaxTimers == 2
MaxCalls == 2

\* the FileWatcher setupServices constructs, before setupWatching.
\* fileWatcher, gitWatcher, refreshTimer and disposables are its fields
\* (refreshTimer 0 is undefined, disposables is the length of the array);
\* liveFile and liveGit count the watchers created and not disposed, timers
\* are the timeouts pending in the event loop, listeners the registered
\* onDidChangeWorkspaceFolders callbacks.  The rest records what happened:
\* op the last operation and delta the callbacks it made, armed and
\* sinceEvent the last debounce and the ticks since it, timerCalls the
\* callbacks timers made since it, setups and refreshes the work of the last
\* workspace-folder change, afterDispose the callbacks made after dispose.
NewFileWatcher ==
  [made |-> TRUE, fileWatcher |-> FALSE, gitWatcher |-> FALSE,
   refreshTimer |-> 0, disposables |-> 0, liveFile |-> 0, liveGit |-> 0,
   timers |-> {}, listeners |-> 0, disposed |-> FALSE, op |-> "new",
   delta |-> 0, armed |-> "none", sinceEvent |-> 0, timerCalls |-> 0,
   setups |-> 0, refreshes |-> 0, afterDispose |-> 0]

\* FileWatcher.setupWatching: two watchers, six event handlers and one more
\* workspace-folder listener, all pushed on disposables
setupWatching(w) ==
  [w EXCEPT !.fileWatcher = TRUE, !.gitWatcher = TRUE,
            !.liveFile = @ + 1, !.liveGit = @ + 1,
            !.disposables = @ + 7, !.listeners = @ + 1,
            !.setups = @ + 1]

clearTimeout(timers, handle) == {t \in timers : t.id # handle}

\* a handle no pending timer and no field holds
FreshHandle(w) ==
  CHOOSE id \in 1..(MaxTimers + 2) :
    /\ id # w.refreshTimer
    /\ \A t \in w.timers : t.id # id

\* FileWatcher.debouncedRefresh without the clearTimeout of the last timer
debouncedRefresh_keepTimer(w) ==
  LET id == FreshHandle(w)
  IN [w EXCEPT !.timers = w.timers \cup {[id |-> id, left |-> DebounceTicks]},
               !.refreshTimer = id, !.armed = "pending",
               !.sinceEvent = 0, !.timerCalls = 0, !.refreshes = @ + 1]

\* FileWatcher.debouncedRefresh
debouncedRefresh(w) ==
  LET id == FreshHandle(w)
      kept == IF w.refreshTimer # 0 THEN clearTimeout(w.timers, w.refreshTimer)
              ELSE w.timers
  IN [w EXCEPT !.timers = kept \cup {[id |-> id, left |-> DebounceTicks]},
               !.refreshTimer = id, !.armed = "pending",
               !.sinceEvent = 0, !.timerCalls = 0, !.refreshes = @ + 1]

\* the callback the timer or forceRefresh invokes (refreshFileList)
onChangeCallback(w) ==
  [w EXCEPT !.delta = @ + 1,
            !.afterDispose = IF w.disposed THEN 1 ELSE @]

\* FileWatcher.forceRefresh
forceRefresh(w) ==
  LET cleared ==
        IF w.refreshTimer # 0
        THEN [w EXCEPT !.timers = clearTimeout(@, w.refreshTimer),
                       !.refreshTimer = 0,
                       !.armed = IF @ = "pending" THEN "cancelled" ELSE @]
        ELSE w
  IN onChangeCallback(cleared)

\* FileWatcher.disposeWatchers leaving the pending timer alone
disposeWatchers_keepTimer(w) ==
  [w EXCEPT !.fileWatcher = FALSE, !.gitWatcher = FALSE,
            !.liveFile = IF w.fileWatcher THEN @ - 1 ELSE @,
            !.liveGit = IF w.gitWatcher THEN @ - 1 ELSE @]

\* FileWatcher.disposeWatchers
disposeWatchers(w) ==
  [w EXCEPT !.fileWatcher = FALSE, !.gitWatcher = FALSE,
            !.liveFile = IF w.fileWatcher THEN @ - 1 ELSE @,
            !.liveGit = IF w.gitWatcher THEN @ - 1 ELSE @,
            !.timers = IF w.refreshTimer # 0
                       THEN clearTimeout(@, w.refreshTimer) ELSE @,
            !.refreshTimer = 0,
            !.armed = IF w.refreshTimer # 0 /\ @ = "pending"
                      THEN "cancelled" ELSE @]

\* FileWatcher.dispose: the watchers, then every disposable (the handlers
\* and the workspace-folder listeners)
dispose(w) ==
  [disposeWatchers(w) EXCEPT !.disposables = 0, !.listeners = 0,
                             !.disposed = TRUE]

\* one onDidChangeWorkspaceFolders callback of setupWatching
onDidChangeWorkspaceFolders(w, newWorkspaceFolder) ==
  IF newWorkspaceFolder
  THEN debouncedRefresh(setupWatching(disposeWatchers(w)))
  ELSE disposeWatchers(w)

\* the event delivered to the n listeners registered when it was raised
RECURSIVE Deliver(_, _, _)
Deliver(w, n, newWorkspaceFolder) ==
  IF n = 0 THEN w
  ELSE Deliver(onDidChangeWorkspaceFolders(w, newWorkspaceFolder), n - 1,
               newWorkspaceFolder)

Did(w, op) == [w EXCEPT !.op = op, !.delta = 0, !.setups = 0, !.refreshes = 0]

\* the state after setupServices found a workspace folder
WatcherInit ==
  /\ watcher = [setupWatching(NewFileWatcher) EXCEPT !.op = "setup"]
  /\ gitService = TRUE
  /\ commitInput = NoCommitInput
  /\ commitOut = NoCommitOut
  /\ refresh = NoRefresh
  /\ gitInput = NoGitInput
  /\ execLog = <<>>
  /\ panelGit = NoPanelGit
  /\ ruleInput = NoRuleInput
  /\ ruleOut = NoRuleOut
  /\ settings = DefaultSettings
  /\ config = loadConfiguration(DefaultSettings, Undefined)
  /\ configNotice = "none"
  /\ gen = IdleGen
  /\ parseInput = NoReply
  /\ parseOut = NoParseOut
  /\ aiGenerateBtn = Enabled
  /\ posted = <<>>
  /\ toWebview = <<>>
  /\ settled = NoOutcome

WatcherUnchanged ==
  UNCHANGED <<commitInput, commitOut, refresh, gitVars, ruleVars, aiVars,
              parseVars, webviewVars>>

\* a create, change or delete event of a live watcher
WatcherEvent ==
  /\ watcher.liveFile + watcher.liveGit > 0
  /\ Cardinality(watcher.timers) < MaxTimers
  /\ watcher' = debouncedRefresh(Did(watcher, "event"))
  /\ WatcherUnchanged

\* TickMs pass; a timer that is due runs before more time passes
Tick ==
  /\ watcher.timers # {}
  /\ \A t \in watcher.timers : t.left > 0
  /\ watcher' =
       [Did(watcher, "tick") EXCEPT
          !.timers = {[t EXCEPT !.left = @ - 1] : t \in watcher.timers},
          !.sinceEvent = IF @ < DebounceTicks THEN @ + 1 ELSE @]
  /\ WatcherUnchanged

\* a due timer runs its function: the callback
TimerFires ==
  /\ \E t \in watcher.timers :
       /\ t.left = 0
       /\ watcher.timerCalls < MaxCalls
       /\ watcher' =
            onChangeCallback(
              [Did(watcher, "fire") EXCEPT
                 !.timers = @ \ {t},
                 !.timerCalls = @ + 1,
                 !.armed = IF @ = "pending" THEN "fired" ELSE @])
  /\ WatcherUnchanged

ForceRefresh ==
  /\ ~watcher.disposed
  /\ watcher.op # "force"
  /\ watcher' = forceRefresh(Did(watcher, "force"))
  /\ WatcherUnchanged

\* the workspace folders change; every registered listener is called
WorkspaceFoldersChange ==
  /\ watcher.listeners > 0
  /\ \E newWorkspaceFolder \in BOOLEAN :
       /\ newWorkspaceFolder => 2 * watcher.listeners <= MaxListeners
       /\ ~newWorkspaceFolder => watcher.liveFile + watcher.liveGit > 0
       /\ watcher' = Deliver(Did(watcher, "workspace"), watcher.listeners,
                             newWorkspaceFolder)
  /\ WatcherUnchanged

\* CommitHelperProvider.dispose, which disposes the FileWatcher
Dispose ==
  /\ ~watcher.disposed
  /\ watcher' = dispose(Did(watcher, "dispose"))
  /\ WatcherUnchanged

WatcherNext ==
  \/ WatcherEvent
  \/ Tick
  \/ TimerFires
  \/ ForceRefresh
  \/ WorkspaceFoldersChange
  \/ Dispose

SpecWatcher == WatcherInit /\ [][WatcherNext]_vars

-----------------------------------------------------------------------------
(* CommitHelperProvider.refreshFileList, one step per await                *)

\* bounds: refreshFileList calls in a behaviour, changes of the repository
MaxRefreshes == 3
MaxRepoChanges == 2

\* refresh.repo is the status git would report now, refresh.calls the
\* refreshFileList calls started, each waiting for git status, holding the
\* status it read, or done; refresh.lastRead is the status read last
RefreshInit ==
  /\ refresh = NoRefresh
  /\ gitService = TRUE
  /\ toWebview = <<>>
  /\ watcher = NoWatcher
  /\ commitInput = NoCommitInput
  /\ commitOut = NoCommitOut
  /\ gitInput = NoGitInput
  /\ execLog = <<>>
  /\ panelGit = NoPanelGit
  /\ ruleInput = NoRuleInput
  /\ ruleOut = NoRuleOut
  /\ settings = DefaultSettings
  /\ config = loadConfiguration(DefaultSettings, Undefined)
  /\ configNotice = "none"
  /\ gen = IdleGen
  /\ parseInput = NoReply
  /\ parseOut = NoParseOut
  /\ aiGenerateBtn = Enabled
  /\ posted = <<>>
  /\ settled = NoOutcome

RefreshUnchanged ==
  UNCHANGED <<commitInput, commitOut, watcher, gitVars, ruleVars, aiVars,
              parseVars, aiGenerateBtn, posted, settled>>

\* a file is edited, staged or committed outside the panel's handlers
RepositoryChanges ==
  /\ refresh.repo < MaxRepoChanges
  /\ refresh' = [refresh EXCEPT !.repo = @ + 1]
  /\ toWebview' = toWebview
  /\ RefreshUnchanged

\* refreshFileList is called (the watcher's callback, a refresh or ready
\* message, a visibility change, the end of a stage, unstage or commit) and
\* starts git status
RefreshStarts ==
  /\ gitService
  /\ Len(refresh.calls) < MaxRefreshes
  /\ refresh' = [refresh EXCEPT
                   !.calls = Append(@, [pc |-> "status", files |-> 0])]
  /\ toWebview' = toWebview
  /\ RefreshUnchanged

\* the git status of one call reads the repository
GitStatusReads ==
  /\ \E i \in 1..Len(refresh.calls) :
       /\ refresh.calls[i].pc = "status"
       /\ refresh' = [refresh EXCEPT
                        !.calls[i] = [pc |-> "read", files |-> refresh.repo],
                        !.lastRead = refresh.repo]
  /\ toWebview' = toWebview
  /\ RefreshUnchanged

\* getFileStatus of one call resolves and the call posts updateFiles
RefreshPosts ==
  /\ \E i \in 1..Len(refresh.calls) :
       /\ refresh.calls[i].pc = "read"
       /\ refresh' = [refresh EXCEPT !.calls[i].pc = "done"]
       /\ toWebview' = Append(toWebview,
                              [type |-> "updateFiles",
                               files |-> refresh.calls[i].files])
  /\ RefreshUnchanged

RefreshNext ==
  \/ RepositoryChanges
  \/ RefreshStarts
  \/ GitStatusReads
  \/ RefreshPosts

SpecRefresh == RefreshInit /\ [][RefreshNext]_vars

-----------------------------------------------------------------------------
(* Claims about the provider gateway and the panel                         *)

Settled == gen.called /\ gen.pc = "done"

ContentFields == {"type", "scope", "message", "confidence"}

\* C1, as stated: for all inputs (any diff text, any provider configuration,
\* any outcome of the provider call) generateCommitContent never raises; a
\* call that has settled has resolved to an AICommitContent.
C1_NeverRaises == Settled => gen.result.kind = "content"

\* C1, amended: for every diff text that is not empty or whitespace-only,
\* whatever the provider configuration and the outcome of the provider
\* call, generateCommitContent never raises and resolves to an
\* AICommitContent; for an empty or whitespace-only diff it raises the
\* NoStagedChanges error.
C1_NeverRaisesOnNonBlankDiff ==
  Settled =>
    IF IsBlank(gen.diff)
    THEN gen.result = [kind |-> "raised", message |-> NoStagedFiles]
    ELSE /\ gen.result.kind = "content"
         /\ DOMAIN gen.result.content = ContentFields

\* a provider request was made, it failed, and the call still resolved
C1_Witness ==
  /\ Settled
  /\ gen.caught
  /\ gen.requests # <<>>
  /\ gen.result.kind = "content"

\* C2: when the staged diff text is empty or whitespace-only, the
\* NoStagedChanges error is signalled before any network call:
\* generateCommitContent issues no provider request whatever provider is
\* configured, and the panel handler generateAIContent answers with
\* aiGenerationFailed and produces no AICommitContent.
C2_BlankDiffStopsBeforeNetwork ==
  /\ gen.called /\ IsBlank(gen.diff) =>
       /\ gen.pc = "done"
       /\ gen.requests = <<>>
       /\ gen.result = [kind |-> "raised", message |-> NoStagedFiles]
  /\ gen.caller = "panel" /\ gen.hasStaged /\ IsBlank(gen.stdout) =>
       /\ gen.pc = "done"
       /\ gen.requests = <<>>
       /\ gen.result.kind # "content"
       /\ gen.outbox = <<[type |-> "aiGenerationFailed"]>>

\* a whitespace-only diff handed to the gateway while a remote provider is
\* configured with a key
C2_Witness ==
  /\ gen.called
  /\ gen.diff.head # <<>> /\ IsBlank(gen.diff)
  /\ config.provider \in RemoteProviders /\ config.apiKey = ApiKey
  /\ gen.result.kind = "raised"

\* C3: every provider failure that generateCommitContent catches and
\* replaces by the rule-based result is accompanied by an advisory
\* notification to the user.
C3_CaughtFailureHasAdvisory ==
  gen.caught => \E i \in 1..Len(gen.notes) : gen.notes[i].level = "warning"

\* C13: every AICommitContent returned by generateCommitContent has a
\* non-empty message, whether it comes from the rule-based path or from
\* parsing a provider response.
C13_MessageNeverEmpty ==
  Settled /\ gen.result.kind = "content" =>
    LET message == gen.result.content.message
    IN message.t = "string" /\ message.v # <<>>

\* a call of generateCommitContent is entered in this step
Entering == gen.pc \in {"idle", "done"} /\ gen' # gen /\ gen'.called

\* the provider method of the configured provider is entered with a diff
\* within its limit: its first request goes out, or, without the key or
\* endpoint it needs, it throws inside the try block
ProviderAttempted(g) ==
  \/ g.pc \in {"generate", "precheck"} /\ Len(g.requests) = 1
  \/ g.pc = "done" /\ g.caught /\ g.requests = <<>>

\* the rule-based result is returned at once, with no request made
RulesWithoutNetwork(g) ==
  /\ g.pc = "done"
  /\ g.requests = <<>>
  /\ ~g.caught
  /\ g.result = [kind |-> "content", via |-> "large", content |-> g.rules]

\* C14: for provider openai or anthropic with a diff longer than 8000
\* characters, and for provider local with a diff longer than 12000
\* characters, generateCommitContent makes no network call and returns
\* exactly the rule-based result for that diff; at or below the threshold
\* the provider call is attempted.
C14_LargeDiffSkipsNetwork ==
  [][Entering /\ ~IsBlank(gen'.diff) =>
       /\ config.provider \in {"openai", "anthropic"} =>
            IF DiffLength(gen'.diff) > 8000 THEN RulesWithoutNetwork(gen')
            ELSE ProviderAttempted(gen')
       /\ config.provider = "local" =>
            IF DiffLength(gen'.diff) > 12000 THEN RulesWithoutNetwork(gen')
            ELSE ProviderAttempted(gen')]_vars

\* a diff of 12001 characters has been answered by the rules without a
\* request, and a diff of 12000 characters has not
C14_Witness ==
  /\ config.provider = "local"
  /\ Settled
  /\ DiffLength(gen.diff) = 12001
  /\ RulesWithoutNetwork(gen)

\* the text placed in the generation request sent to Gemini
GeminiRequestTexts ==
  {gen.requests[i].text :
     i \in {j \in 1..Len(gen.requests) :
              gen.requests[j].to = "POST gemini/generateContent"}}

\* C15: with provider gemini and an API key set, when the raw diff is longer
\* than 3000 characters the text placed in the generation request is the
\* condensed summary, never the raw diff, and its length is at most 1.5
\* times the target summary length of 800, that is at most 1200; if the
\* condensed text exceeds that ceiling no generation request is sent and
\* the rule-based result is returned.
C15_GeminiSendsBoundedSummary ==
  gen.called /\ DiffLength(gen.diff) > 3000 =>
    /\ \A text \in GeminiRequestTexts :
         /\ text = TruncatedForGemini[gen.diff]
         /\ text # gen.diff
         /\ DiffLength(text) <= 1200
    /\ DiffLength(TruncatedForGemini[gen.diff]) > 1200 =>
         GeminiRequestTexts = {}
    /\ gen.result.kind = "content" /\ gen.result.via = "summary" =>
         /\ gen.requests = <<>>
         /\ gen.result.content = gen.rules

\* a generation request has gone to Gemini for a diff of 3001 characters
C15_Witness ==
  /\ gen.called
  /\ DiffLength(gen.diff) = 3001
  /\ GeminiRequestTexts # {}
  /\ GeminiRequestTexts # {gen.diff}

NonEmpty(v) == v # "" /\ v # Undefined

\* C10, as stated: isConfigured() is true for provider rules and for
\* provider local in every reachable configuration, and for openai,
\* anthropic and gemini it is true exactly when the API key is non-empty.
C10_RulesAndLocalAlwaysConfigured ==
  /\ config.provider \in {"rules", "local"} => isConfigured(config)
  /\ config.provider \in RemoteProviders =>
       (isConfigured(config) <=> NonEmpty(config.apiKey))

\* C10, amended: isConfigured() is true for provider rules in every
\* reachable configuration; for provider local it is true exactly when the
\* endpoint is non-empty, which an update can undo; for openai, anthropic
\* and gemini it is true exactly when the API key is non-empty.
C10_ConfiguredByKeyOrEndpoint ==
  /\ config.provider = "rules" => isConfigured(config)
  /\ config.provider = "local" =>
       (isConfigured(config) <=> NonEmpty(config.endpoint))
  /\ config.provider \in RemoteProviders =>
       (isConfigured(config) <=> NonEmpty(config.apiKey))

\* an update has set provider local with an empty endpoint
C10_Witness ==
  /\ config.provider = "local"
  /\ config.endpoint = ""
  /\ ~isConfigured(config)

-----------------------------------------------------------------------------
(* Claims about the panel and its webview                                  *)

AnswerTypes == {"aiContentGenerated", "aiGenerationFailed"}

Answers(messages) == SelectSeq(messages, LAMBDA m : m.type \in AnswerTypes)

\* the generation the webview asked for is waiting for a provider
PanelInFlight == gen.caller = "panel" /\ gen.pc \in {"precheck", "generate"}

\* the generation requests of the webview that have no answer yet: posted
\* and not taken by the panel, being handled, or answered by a message the
\* webview has not received
Outstanding ==
  Len(posted) + (IF PanelInFlight THEN 1 ELSE 0) + Len(Answers(toWebview))

\* C17: at most one generation request is in flight per panel instance;
\* from the moment the webview posts generateAIContent until it receives
\* the matching aiContentGenerated or aiGenerationFailed the AI button is
\* disabled and no second generateAIContent is posted.
C17_OneRequestInFlight ==
  /\ Outstanding <= 1
  /\ Outstanding = 1 => aiGenerateBtn.disabled
  /\ \A i \in 1..Len(posted) : posted[i].type = "generateAIContent"

\* a request of the webview waits for its provider while a file list the
\* panel posted is still to be received
C17_Witness ==
  /\ PanelInFlight /\ gen.pc = "generate"
  /\ aiGenerateBtn.disabled
  /\ posted = <<>>
  /\ toWebview = <<[type |-> "updateFiles"]>>

\* the panel has answered the request it handled last exactly once
ExactlyOneAnswer ==
  gen.caller = "panel" =>
    /\ Len(gen.outbox) = (IF gen.pc = "done" THEN 1 ELSE 0)
    /\ \A i \in 1..Len(gen.outbox) : gen.outbox[i].type \in AnswerTypes

\* a step that enables the AI button is the receipt of an answer
ReenabledByAnswer ==
  aiGenerateBtn.disabled /\ ~aiGenerateBtn'.disabled =>
    /\ toWebview # <<>>
    /\ Head(toWebview).type \in AnswerTypes
    /\ toWebview' = Tail(toWebview)

\* C18: every generateAIContent message the panel handles is answered by
\* exactly one message, aiContentGenerated or aiGenerationFailed, never both
\* and never neither, so the disabled AI button is eventually enabled again;
\* the button is enabled again only by one of these two messages.
C18_AnsweredExactlyOnce ==
  /\ []ExactlyOneAnswer
  /\ [][ReenabledByAnswer]_vars
  /\ (aiGenerateBtn.disabled ~> ~aiGenerateBtn.disabled)

\* a request that failed at its provider and was answered by the rule
\* engine has been received, and the button is enabled again
C18_Witness ==
  /\ gen.caller = "panel" /\ gen.pc = "done"
  /\ gen.requests # <<>>
  /\ gen.outbox # <<>>
  /\ toWebview = <<>>
  /\ posted = <<>>
  /\ ~aiGenerateBtn.disabled

\* the last request of the generation the webview asked for was refused by
\* the local endpoint; the configuration does not change while the panel
\* runs alone
LocalConnectionRefused ==
  /\ config.provider = "local"
  /\ gen.caller = "panel" /\ gen.pc = "done"
  /\ gen.requests # <<>>
  /\ settled.kind = "fetch failed"

\* C20: when the provider is local and the connection to the local
\* endpoint is refused, on the request that tests the connection or on the
\* generation request, the user is shown the advisory that the local AI
\* service is not running or cannot be reached, and the rule-based result
\* is returned.
C20_LocalConnectionAdvisory ==
  LocalConnectionRefused =>
    /\ \E n \in 1..Len(gen.notes) :
         gen.notes[n] = Note("warning", "local AI service connection failed")
    /\ gen.result.kind = "content"
    /\ gen.result.content = gen.rules

\* the request of a gemini generation settled with this outcome
GeminiSettled(outcome) ==
  /\ gen.pc = "done"
  /\ gen.called
  /\ config.provider = "gemini"
  /\ settled = outcome

GeminiLimitOutcomes ==
  {o \in GeminiOutcomes :
     o.kind = "MAX_TOKENS" \/ (o.kind = "status" /\ o.status = 429)}

GeminiBlockOutcomes == {o \in GeminiOutcomes : o.kind \in {"SAFETY", "RECITATION"}}

QuotaWarning == Note("warning", "Gemini quota used up, rule engine used")

\* every warning showProviderError can show
ProviderAdvisories ==
  {Note("warning", "local AI service connection failed"),
   Note("warning", "OpenAI API key not set"),
   Note("warning", "Gemini API key not set"),
   Note("warning", "Gemini response truncated"),
   Note("warning", "Gemini blocked the response")}

\* C24: with provider gemini, a reply cut at the token limit (MAX_TOKENS)
\* and an HTTP 429 each yield the rule-based result for the original diff
\* without the error path (nothing caught, no showProviderError advisory);
\* a SAFETY or RECITATION finish raises an error that generateCommitContent
\* catches and replaces by the rule-based result.
C24_GeminiLimitsFallBackQuietly ==
  /\ \A o \in GeminiLimitOutcomes :
       GeminiSettled(o)
         => /\ ~gen.caught
            /\ gen.error = <<>>
            /\ gen.result.kind = "content"
            /\ gen.result.content = RuleBasedResult[gen.diff]
            /\ \A k \in 1..Len(gen.notes) :
                 gen.notes[k] \notin ProviderAdvisories
            /\ (o.kind = "status")
                 <=> \E k \in 1..Len(gen.notes) : gen.notes[k] = QuotaWarning
  /\ \A o \in GeminiBlockOutcomes :
       GeminiSettled(o)
         => /\ gen.caught
            /\ gen.error = (IF o.kind = "SAFETY" THEN ErrGeminiSafety
                             ELSE ErrGeminiRecitation)
            /\ gen.result.kind = "content"
            /\ gen.result.content = RuleBasedResult[gen.diff]

\* a generation whose diff gemini receives cut down, settled by MAX_TOKENS
C24_Witness ==
  /\ GeminiSettled([kind |-> "MAX_TOKENS"])
  /\ gen.result.via = "truncated"
  /\ gen.requests # <<>>

\* a generation settled by a safety block
C24_WitnessBlocked ==
  /\ GeminiSettled([kind |-> "SAFETY"])
  /\ gen.result.via = "catch"

ConfigFields == {"provider", "apiKey", "model", "endpoint"}

\* C29: after every updateAIConfig message has been handled, the
\* configuration AIService holds in memory equals the configuration in the
\* settings store for provider, apiKey, model and endpoint, also when the
\* message's provider is empty and when a settings write fails part-way.
C29_MemoryEqualsStore ==
  [][\A f \in ConfigFields : config'[f] = settings'[f]]_vars

-----------------------------------------------------------------------------
(* Claims about reading a provider's reply                                 *)

ParsedReply == parseOut.op = "parseAIResponse"

\* C11: any confidence in an AICommitContent produced from a remote
\* provider's response lies in [0,1], whatever value the response's
\* confidence field holds.
C11_ConfidenceInUnitInterval ==
  ParsedReply =>
    LET confidence == parseOut.content.confidence
    IN /\ confidence.t = "number"
       /\ 0 <= confidence.n
       /\ confidence.n <= 100

\* C12: the message of every AICommitContent produced by response parsing
\* neither starts nor ends with a quote character, whether it came from a
\* parsed JSON object, from the type(scope): message pattern or from the
\* first line of text.
C12_MessageQuotesStripped ==
  ParsedReply =>
    LET message == parseOut.content.message
    IN message.t = "string" /\ message.v # <<>> =>
         /\ Head(message.v) \notin StripChars
         /\ message.v[Len(message.v)] \notin StripChars

\* the places of a text at which the type(scope): message pattern matches
PatternPlaces(text) ==
  {i \in 1..Len(text) : CommitMatch(Drop(text, i - 1)).matched}

\* C16: response parsing tries three strategies in order.  If the text
\* holds a JSON object that parses, the fields it gives a value are used;
\* otherwise, if the text contains a type(scope): message pattern with a
\* known type keyword, type, scope and message come from it; otherwise the
\* first line of the text is the message, with type chore and confidence
\* 0.7.  Parsing always yields a result.
C16_ThreeStrategies ==
  ParsedReply =>
    LET out == parseOut.content
        text == parseInput.raw
        obj == parseInput.json
        places == PatternPlaces(text)
        first == CHOOSE i \in places : \A j \in places : i <= j
        found == CommitMatch(Drop(text, first - 1))
        firstLine == SplitOn(text, NL)[1]
    IN IF obj.kind = "object"
       THEN /\ JTruthy(obj.type) => out.type = obj.type
            /\ JTruthy(obj.scope) => out.scope = obj.scope
            /\ JTruthy(obj.message) => out.message = obj.message
            /\ JTruthy(obj.confidence) => out.confidence = obj.confidence
       ELSE IF places # {}
       THEN /\ out.type = JString(found.type)
            /\ out.scope = JOr(JString(found.scope), JUndefined)
            /\ out.message = JString(StripQuotes(found.message))
       ELSE /\ out.type = JString(<<"c", "h", "o", "r", "e">>)
            /\ firstLine # <<>> => out.message = JString(StripQuotes(firstLine))
            /\ out.confidence = JNumber(70)

-----------------------------------------------------------------------------
(* Claims about the git command surface                                    *)

PathCommands == {"git add", "git restore --staged", "git reset HEAD"}

\* number of consecutive backslashes immediately before position i of s
RECURSIVE BackslashRunBefore(_, _)
BackslashRunBefore(s, i) ==
  IF i > 1 /\ s[i - 1] = BS THEN 1 + BackslashRunBefore(s, i - 1) ELSE 0

\* every double quote, backtick and dollar sign of s is preceded by an odd
\* number of backslashes, and every other backslash run is of even length
EscapedForDoubleQuotes(s) ==
  /\ \A i \in 1..Len(s) :
       s[i] \in {DQ, BT, DL} => BackslashRunBefore(s, i) % 2 = 1
  /\ \A i \in 1..(Len(s) + 1) :
       (i = Len(s) + 1 \/ s[i] \notin {DQ, BT, DL, BS})
         => BackslashRunBefore(s, i) % 2 = 0

\* C7: in the message that commit places in the git command, every double
\* quote, backtick, dollar sign and backslash is escaped (preceded by an odd
\* number of backslashes), so that no double quote closes the argument.
C7_CommitMessageEscaped ==
  \A k \in 1..Len(execLog) :
    execLog[k].cmd = "git commit -m" => EscapedForDoubleQuotes(execLog[k].arg)

\* C8: the path that stageFile and unstageFile pass to git contains no "../".
C8_NoTraversalInPath ==
  \A k \in 1..Len(execLog) :
    execLog[k].cmd \in PathCommands => ~Includes(execLog[k].arg, DotDotSlash)

\* C9: the path that stageFile and unstageFile pass to git contains none of
\* the shell metacharacters ; & | ` $ ( ) { } [ ], and stageFile of
\* "a; rm -rf /.ts" runs git add with the semicolon removed.
C9_NoShellMetaInPath ==
  /\ \A k \in 1..Len(execLog) :
       execLog[k].cmd \in PathCommands
         => \A i \in 1..Len(execLog[k].arg) : execLog[k].arg[i] \notin ShellMeta
  /\ (gitInput.text = ScenarioPath /\ execLog # <<>>)
       => execLog[1].arg =
            <<"a", SP, "r", "m", SP, "-", "r", "f", SP, "/", ".", "t", "s">>

\* the scenario path has been staged and git add ran without the semicolon
C9_Witness ==
  /\ gitInput.text = ScenarioPath
  /\ Len(execLog) = 1
  /\ execLog[1].cmd = "git add"
  /\ \A i \in 1..Len(execLog[1].arg) : execLog[1].arg[i] # ";"

\* C19: a stage, unstage or commit command of git that fails is shown to
\* the user as an error message and is never retried silently: when a
\* command of an operation has failed, the user has been shown an error,
\* whether or not a second command was run for the operation.
C19_FailureSurfaced ==
  \A k \in 1..Len(panelGit.failed) :
    panelGit.failed[k] =>
      \E n \in 1..Len(panelGit.notes) : panelGit.notes[n].level = "error"

-----------------------------------------------------------------------------
(* Claims about the rule-based generator                                   *)

KnownTypes ==
  {"feat", "fix", "refactor", "docs", "style", "test", "chore", "perf", "ci",
   "build", "revert"}

\* C4: for every diff text generateWithEnhancedRules returns a content whose
\* confidence is at most 0.9 and whose type is one of the eleven known types.
C4_RuleBasedRange ==
  ruleOut.op = "generateWithEnhancedRules"
    => /\ ruleOut.content.confidence <= 90
       /\ ruleOut.content.type \in KnownTypes

\* a diff naming a test file was classified at the cap of 0.9
C4_Witness ==
  /\ ruleOut.op = "generateWithEnhancedRules"
  /\ ruleOut.content.type = "test"
  /\ ruleOut.content.confidence = 90
  /\ Len(ruleInput.text) > 0

\* the ordered rule list of the specification, over the file kinds present,
\* the content flags and the change statistics
SpecRuleList(files, flags, stats) ==
  LET testFiles == (\E k \in 1..Len(files) : IsTestFile(files[k]))
      docFiles == (\E k \in 1..Len(files) : IsDocFile(files[k]))
      styleFiles == (\E k \in 1..Len(files) : IsStyleFile(files[k]))
      configFiles == (\E k \in 1..Len(files) : IsConfigFile(files[k]))
      manifest == (\E k \in 1..Len(files) : IsPackageManifest(files[k]))
      netNew == stats.additions > 2 * stats.deletions
  IN <<[when |-> testFiles /\ flags.hasTests, type |-> "test", conf |-> 90],
       [when |-> docFiles /\ flags.hasDocs, type |-> "docs", conf |-> 90],
       [when |-> flags.hasBugFix, type |-> "fix", conf |-> 85],
       [when |-> netNew /\ flags.hasNewFeature, type |-> "feat", conf |-> 85],
       [when |-> flags.hasRefactor, type |-> "refactor", conf |-> 80],
       [when |-> styleFiles /\ flags.hasStyles, type |-> "style", conf |-> 80],
       [when |-> configFiles \/ flags.hasConfig,
        type |-> IF manifest THEN "build" ELSE "chore",
        conf |-> IF manifest THEN 80 ELSE 75],
       [when |-> stats.deletions > 0 /\ stats.additions = 0,
        type |-> "refactor", conf |-> 70],
       [when |-> netNew /\ ~flags.hasNewFeature, type |-> "feat", conf |-> 70],
       [when |-> stats.fileCount = 1, type |-> "fix", conf |-> 65],
       [when |-> TRUE, type |-> "chore", conf |-> 60]>>

FirstMatchingRule(rules) ==
  rules[CHOOSE i \in 1..Len(rules) :
          rules[i].when /\ \A j \in 1..(i - 1) : ~rules[j].when]

OnlyFlag(flags, name) ==
  \A f \in DOMAIN flags : flags[f] <=> (f = name)

\* C5: determineCommitType returns the type and confidence of the first
\* matching rule of the specification's ordered list; 5 files with
\* additions=120, deletions=10 and only the newFeature flag give feat 0.85,
\* and the single path README.md with only the docs flag gives docs 0.9.
C5_FirstMatchWins ==
  ruleOut.op = "determineCommitType"
    => \A rules \in {SpecRuleList(ruleInput.files, ruleInput.flags,
                                  ruleInput.stats)} :
       \A rule \in {FirstMatchingRule(rules)} :
          /\ ruleOut.result.type = rule.type
          /\ ruleOut.result.confidence = rule.conf
          /\ (/\ ruleInput.stats =
                   [additions |-> 120, deletions |-> 10, fileCount |-> 5]
              /\ OnlyFlag(ruleInput.flags, "hasNewFeature"))
               => ruleOut.result = [type |-> "feat", confidence |-> 85]
          /\ (/\ ruleInput.files = <<ReadmeMd>>
              /\ OnlyFlag(ruleInput.flags, "hasDocs"))
               => ruleOut.result = [type |-> "docs", confidence |-> 90]

\* signals matching several rules at once (docs, fix and config) were
\* classified by the earliest of them
C5_Witness ==
  /\ ruleOut.op = "determineCommitType"
  /\ ruleInput.files = <<ReadmeMd, PackageJson>>
  /\ ruleInput.flags.hasDocs /\ ruleInput.flags.hasBugFix
  /\ ruleInput.flags.hasConfig /\ ~ruleInput.flags.hasTests
  /\ ruleOut.result = [type |-> "docs", confidence |-> 90]

\* the directory <dir> when every path is src/<dir>/..., with one <dir>
UnderOneSrcDir(files, dir) ==
  /\ Len(files) > 0
  /\ Len(dir) > 0
  /\ \A k \in 1..Len(files) :
       LET parts == SplitOn(files[k], "/")
       IN Len(parts) >= 3 /\ parts[1] = <<"s", "r", "c">> /\ parts[2] = dir

\* C6: scope derivation skips the source-root segment: for files that all
\* lie under src/<dir>/ with the same <dir> (as src/auth/login.ts and
\* src/auth/token.ts) the derived scope is that directory.
C6_ScopeSkipsSourceRoot ==
  ruleOut.op = "extractScope"
    => \A dir \in {<<"a", "u", "t", "h">>} :
         UnderOneSrcDir(ruleInput.files, dir) => ruleOut.scope = dir

\* the first segment of each path that is neither the source root nor "."
TopLevelDirs(files) ==
  {SplitOn(files[k], "/")[1] : k \in 1..Len(files)}
    \ {<<"s", "r", "c">>, <<".">>}

FirstSeen(files, d) ==
  CHOOSE k \in 1..Len(files) :
    /\ SplitOn(files[k], "/")[1] = d
    /\ \A j \in 1..(k - 1) : SplitOn(files[j], "/")[1] # d

\* the scope the rule selects among the directories Listed admits
ScopeAmong(files, Listed(_)) ==
  LET dirs == TopLevelDirs(files)
      listed == {d \in dirs : Listed(d)}
  IN IF Cardinality(dirs) = 1 THEN CHOOSE d \in dirs : TRUE
     ELSE IF listed # {}
     THEN CHOOSE d \in listed :
            \A e \in listed : FirstSeen(files, d) <= FirstSeen(files, e)
     ELSE <<>>

InWhitelist(d) == d \in commonScopes

InWhitelistAnyCase(d) == ToLower(d) \in commonScopes

\* C25 as stated: over the distinct top-level directories of the paths
\* (source root and "." excluded), one directory is the scope; otherwise the
\* scope is the first directory, in order of first occurrence, whose name is
\* in the whitelist; otherwise, and with no paths, there is no scope.
C25_ScopeByWhitelistName ==
  ruleOut.op = "extractScope"
    => ruleOut.scope = ScopeAmong(ruleInput.files, InWhitelist)

\* C25, amended: the same selection, with a directory admitted when its
\* name in lower case is in the whitelist; the scope keeps the directory's
\* own spelling.
C25_ScopeByWhitelistAnyCase ==
  ruleOut.op = "extractScope"
    => ruleOut.scope = ScopeAmong(ruleInput.files, InWhitelistAnyCase)

\* several directories, and the first whitelisted one is spelled in capitals
C25_Witness ==
  /\ ruleOut.op = "extractScope"
  /\ Cardinality(TopLevelDirs(ruleInput.files)) >= 2
  /\ ruleOut.scope = <<"U", "I">>
  /\ \E k \in 1..Len(ruleInput.files) :
       SplitOn(ruleInput.files[k], "/")[1] = <<"u", "i">>

-----------------------------------------------------------------------------
(* Claims about the commit form                                            *)

\* C21: the formatter returns the type, then the scope in parentheses only
\* when the scope is not empty, then a colon, a space and the message;
\* format(feat, auth, m) is feat(auth): m and format(fix, "", m) is fix: m.
\* It is total and changes nothing else.
C21_FormatIsTypeScopeMessage ==
  commitOut.op = "formatCommitMessage"
    => /\ commitOut.text =
            commitInput.commitType
              \o (IF Len(commitInput.scope) > 0
                  THEN <<"(">> \o commitInput.scope \o <<")">> ELSE <<>>)
              \o <<":", SP>> \o commitInput.message
       /\ (commitInput = [commitType |-> <<"f", "e", "a", "t">>,
                          scope |-> <<"a", "u", "t", "h">>,
                          message |-> <<"{xin}", "{zeng}", "{deng}", "{ru}",
                                        "{gong}", "{neng}">>]
             => commitOut.text =
                  <<"f", "e", "a", "t", "(", "a", "u", "t", "h", ")", ":", SP,
                    "{xin}", "{zeng}", "{deng}", "{ru}", "{gong}", "{neng}">>)
       /\ (commitInput = [commitType |-> <<"f", "i", "x">>, scope |-> <<>>,
                          message |-> <<"{xiu}", "{fu}">>]
             => commitOut.text =
                  <<"f", "i", "x", ":", SP, "{xiu}", "{fu}">>)

\* the formatter applied to a type and a message without a scope
C21_Witness ==
  /\ commitOut.op = "formatCommitMessage"
  /\ commitInput.scope = <<>>
  /\ commitOut.text = <<"f", "i", "x", ":", SP, "{xiu}", "{fu}">>

CommitCommandRan ==
  /\ commitOut.op = "handleCommit"
  /\ \E k \in 1..Len(commitOut.run.ran) :
       commitOut.run.ran[k].cmd = "git commit -m"

StageAllSucceeded ==
  \E k \in 1..Len(commitOut.run.ran) :
    commitOut.run.ran[k].cmd = "git add ." /\ ~commitOut.run.failed[k]

\* C26: handleCommit runs git commit only when the type is not empty, the
\* message is not blank, the workspace is a git repository and the staged
\* set is not empty (hasStagedChanges true, or the user accepted stage-all
\* and stage-all succeeded); when the user declines or a check fails no
\* commit command is run.
C26_CommitOnlyWhenStaged ==
  CommitCommandRan
    => /\ gitService
       /\ commitOut.input.commitType # <<>>
       /\ Trim(commitOut.input.message) # <<>>
       /\ commitOut.env.isRepo
       /\ \/ commitOut.env.hasStaged
          \/ commitOut.env.action = "yes" /\ StageAllSucceeded

ClearInputsPosted ==
  /\ commitOut.op = "handleCommit"
  /\ \E k \in 1..Len(commitOut.run.posts) : commitOut.run.posts[k] = ClearInputs

\* C27: clearInputs is posted only after git commit has succeeded and after
\* the updateFiles refresh that follows it; when validation or the
\* repository check fails, the user declines staging or the commit fails,
\* no clearInputs is posted and the form keeps type, scope and message.
C27_ClearOnlyAfterCommitAndRefresh ==
  commitOut.op = "handleCommit"
    => LET run == commitOut.run
           n == Len(run.posts)
           committed ==
             \E k \in 1..Len(run.ran) :
               run.ran[k].cmd = "git commit -m" /\ ~run.failed[k]
       IN /\ ClearInputsPosted
               => /\ committed
                  /\ n >= 2
                  /\ run.posts[n] = ClearInputs
                  /\ run.posts[n - 1] = UpdateFiles
                  /\ \A k \in 1..(n - 1) : run.posts[k] # ClearInputs
          /\ ~committed => ~ClearInputsPosted /\ commitInput = commitOut.input
          /\ committed => ClearInputsPosted /\ commitInput = NoCommitInput

\* a commit after an accepted stage-all: two refreshes, then clearInputs
C27_Witness ==
  /\ ClearInputsPosted
  /\ commitOut.run.posts = <<UpdateFiles, UpdateFiles, ClearInputs>>

-----------------------------------------------------------------------------
(* Claims about the FileWatcher                                            *)

\* C22: updates are debounced: after a burst of watcher events the callback
\* is invoked exactly once, one delay after the last event of the burst; at
\* most one refresh timer is pending at any time; forceRefresh cancels the
\* pending timer and invokes the callback exactly once.
C22_DebouncedOnce ==
  LET w == watcher
  IN /\ Cardinality(w.timers) <= 1
     /\ w.armed = "pending"
          <=> w.timers = {[id |-> w.refreshTimer,
                           left |-> DebounceTicks - w.sinceEvent]}
     /\ w.armed = "pending" \/ w.timers = {}
     /\ w.timerCalls <= 1
     /\ w.timerCalls = 1 <=> w.armed = "fired"
     /\ w.op = "fire"
          => /\ w.delta = 1
             /\ w.armed = "fired"
             /\ w.sinceEvent = DebounceTicks
     /\ w.op = "force" => w.delta = 1 /\ w.timers = {} /\ w.refreshTimer = 0
     /\ w.op \notin {"fire", "force"} => w.delta = 0

\* the callback made by the timer of the last of several events
C22_Witness ==
  /\ watcher.op = "fire"
  /\ watcher.armed = "fired"
  /\ watcher.refreshTimer > 1

\* C23: after dispose no timer is pending, both watchers are disposed, the
\* disposables are empty, and no watcher or timer event invokes the callback
\* again.
C23_DisposeLeavesNothing ==
  watcher.disposed
    => /\ watcher.timers = {}
       /\ watcher.refreshTimer = 0
       /\ ~watcher.fileWatcher /\ ~watcher.gitWatcher
       /\ watcher.liveFile = 0 /\ watcher.liveGit = 0
       /\ watcher.disposables = 0
       /\ watcher.listeners = 0
       /\ watcher.afterDispose = 0
       /\ watcher.op = "dispose"

\* dispose while the timer of a watcher event was pending
C23_Witness ==
  /\ watcher.disposed
  /\ watcher.armed = "cancelled"
  /\ watcher.refreshTimer = 0

\* C30: after any sequence of workspace-folder changes at most one file
\* watcher and one git watcher are live, and exactly one workspace-folder
\* listener is registered, so that one change triggers one re-setup and one
\* debounced refresh.
C30_OneWatcherOneListener ==
  watcher.made /\ ~watcher.disposed
    => /\ watcher.liveFile <= 1
       /\ watcher.liveGit <= 1
       /\ watcher.listeners = 1
       /\ watcher.op = "workspace"
            => watcher.setups <= 1 /\ watcher.refreshes <= 1

\* the part of C30 about the watchers
C30_OneLivePair ==
  /\ watcher.liveFile = (IF watcher.fileWatcher THEN 1 ELSE 0)
  /\ watcher.liveGit = (IF watcher.gitWatcher THEN 1 ELSE 0)

-----------------------------------------------------------------------------
(* Claims about the file list                                              *)

\* C28: when refreshes overlap, the last updateFiles message posted carries
\* the status that was read from git last, so once every refresh has
\* completed the panel shows that status and never an older snapshot.
C28_LastMessageIsLastRead ==
  (/\ refresh.calls # <<>>
   /\ \A i \in 1..Len(refresh.calls) : refresh.calls[i].pc = "done")
    => toWebview[Len(toWebview)].files = refresh.lastRead

====
